---- MODULE Spec2Model ----
(***************************************************************************)
(* A model of python-rokuecp: the Roku client's update() reconciler        *)
(* (rokuecp.py) and the Device snapshot with its decoders (models.py).     *)
(*                                                                         *)
(* Python values are tagged records, so that None, str, dict and list      *)
(* stay distinguishable: [ty |-> "None"], [ty |-> "str", v |-> <chars>],   *)
(* [ty |-> "dict", v |-> <function from keys>], [ty |-> "list", v |-> seq],*)
(* [ty |-> "bool", v |-> BOOLEAN], [ty |-> "int", v |-> Int].              *)
(* A Python str is a sequence of one-character strings, so slicing,       *)
(* stripping and parsing are computed and not looked up.                   *)
(* A call that may raise returns [exc |-> "ok", v |-> value] or            *)
(* [exc |-> <exception class>, v |-> None].                                *)
(***************************************************************************)
EXTENDS Integers, Sequences, FiniteSets, TLC

VARIABLES
    heap,       \* the Device objects constructed so far (index = identity)
    device,     \* Roku._device: 0 for None, else an index into heap
    calls,      \* per caller: the frame of its Roku.update() coroutine
    wire,       \* requests sent and not yet answered: [c, task, live]
    merge,      \* the last direct Device.update_from_dict call: its arguments
    probe,      \* the last direct call of an endpoint accessor or of an entity
                \* decoder: [task, res, out]
    now,        \* the wall clock, datetime.utcnow(); the package is imported at 0
    roku,       \* the Roku object's session and DNS fields
    http,       \* the Roku._request call in flight or last made, and its history
    control     \* the command coroutine (remote, literal, tune, launch) in
                \* flight or last made: its argument, position and requests

vars == <<heap, device, calls, wire, merge, probe, now, roku, http, control>>

-----------------------------------------------------------------------------
(* Python values *)

None == [ty |-> "None"]

Str(s) == [ty |-> "str", v |-> s]

Dict(f) == [ty |-> "dict", v |-> f]

List(q) == [ty |-> "list", v |-> q]

Bool(b) == [ty |-> "bool", v |-> b]

PyInt(n) == [ty |-> "int", v |-> n]

EmptyDict == Dict(<<>>)

Ok(x) == [exc |-> "ok", v |-> x]

Raise(e) == [exc |-> e, v |-> None]

\* the value of an expression that is evaluated once and then used: the
\* element of the one-element set S
The(S) == CHOOSE x \in S : TRUE

\* bool(x): Python truth value testing.
Truthy(x) ==
    CASE x.ty = "None" -> FALSE
      [] x.ty = "bool" -> x.v
      [] x.ty = "int" -> x.v # 0
      [] x.ty = "str" -> Len(x.v) > 0
      [] x.ty = "list" -> Len(x.v) > 0
      [] x.ty = "dict" -> DOMAIN x.v # {}
      [] OTHER -> TRUE

\* isinstance(x, dict)
IsDict(x) == x.ty = "dict"

\* `k in d` for a dict d
HasKey(d, k) == k \in DOMAIN d.v

\* d.get(k, dflt) for a dict d
Get(d, k, dflt) == IF k \in DOMAIN d.v THEN d.v[k] ELSE dflt

\* x == s for a str literal s (char sequence); False for every non-str x
EqStr(x, s) == x.ty = "str" /\ x.v = s

-----------------------------------------------------------------------------
(* str helpers *)

Whitespace == {" ", "\t", "\n"}

RECURSIVE LStrip(_)
LStrip(s) ==
    IF s # <<>> /\ Head(s) \in Whitespace THEN LStrip(Tail(s)) ELSE s

RECURSIVE RStrip(_)
RStrip(s) ==
    IF s # <<>> /\ s[Len(s)] \in Whitespace
    THEN RStrip(SubSeq(s, 1, Len(s) - 1))
    ELSE s

\* str.strip()
Strip(s) == RStrip(LStrip(s))

\* s[:n]
Prefix(s, n) == SubSeq(s, 1, IF Len(s) < n THEN Len(s) ELSE n)

S_true == <<"t", "r", "u", "e">>
S_false == <<"f", "a", "l", "s", "e">>
S_PowerOn == <<"P", "o", "w", "e", "r", "O", "n">>
S_PowerOff == <<"P", "o", "w", "e", "r", "O", "f", "f">>
S_tvinput == <<"t", "v", "i", "n", "p", "u", "t">>
S_tvinput_dtv == <<"t", "v", "i", "n", "p", "u", "t", ".", "d", "t", "v">>
S_tvinput_hdmi == <<"t", "v", "i", "n", "p", "u", "t", ".", "h", "d", "m", "i">>
S_play == <<"p", "l", "a", "y">>
S_pause == <<"p", "a", "u", "s", "e">>
S_close == <<"c", "l", "o", "s", "e">>
S_Roku == <<"R", "o", "k", "u">>
S_box == <<"b", "o", "x">>
S_tv == <<"t", "v">>
S_stick == <<"s", "t", "i", "c", "k">>
S_unknown == <<"u", "n", "k", "n", "o", "w", "n">>
S_UnknownName ==
    <<"R", "o", "k", "u", " ", "(", "U", "n", "k", "n", "o", "w", "n", " ",
      "N", "a", "m", "e", ")">>

-----------------------------------------------------------------------------
(* int(), _ms_to_sec *)

Digits == {"0", "1", "2", "3", "4", "5", "6", "7", "8", "9"}

DigitVal(c) ==
    CASE c = "0" -> 0 [] c = "1" -> 1 [] c = "2" -> 2 [] c = "3" -> 3
      [] c = "4" -> 4 [] c = "5" -> 5 [] c = "6" -> 6 [] c = "7" -> 7
      [] c = "8" -> 8 [] c = "9" -> 9

\* the digits of a literal, underscores dropped, read base 10
RECURSIVE DigitsVal(_, _)
DigitsVal(s, acc) ==
    IF s = <<>> THEN acc
    ELSE IF Head(s) = "_" THEN DigitsVal(Tail(s), acc)
    ELSE DigitsVal(Tail(s), 10 * acc + DigitVal(Head(s)))

\* what int() accepts after the sign: digits, single underscores between them
ValidDigits(s) ==
    /\ s # <<>>
    /\ \A i \in 1..Len(s) : s[i] \in Digits \cup {"_"}
    /\ s[1] \in Digits
    /\ s[Len(s)] \in Digits
    /\ \A i \in 1..(Len(s) - 1) : ~(s[i] = "_" /\ s[i + 1] = "_")

\* the decimal digits of a literal: underscores and leading zeros dropped
RECURSIVE Significant(_)
Significant(s) ==
    IF s = <<>> THEN <<>>
    ELSE IF Head(s) \in {"0", "_"} THEN Significant(Tail(s))
    ELSE SelectSeq(s, LAMBDA c : c # "_")

\* the most digits of a Python int that is kept as a number here
SmallDigits == 9

\* a Python int of more than SmallDigits digits (Python's ints are not
\* bounded): its sign and its decimal digits
BigInt(neg, ds) == [ty |-> "bigint", neg |-> neg, digits |-> ds]

\* int(s) for a str s: ValueError unless [ws][sign]digits[ws]
IntOfStr(s) ==
    LET t == Strip(s)
        signed == t # <<>> /\ Head(t) \in {"+", "-"}
        body == IF signed THEN Tail(t) ELSE t
        neg == signed /\ Head(t) = "-"
    IN  IF ~ValidDigits(body) THEN Raise("ValueError")
        ELSE IF Len(Significant(body)) > SmallDigits
        THEN Ok(BigInt(neg, Significant(body)))
        ELSE IF neg THEN Ok(PyInt(0 - DigitsVal(body, 0)))
        ELSE Ok(PyInt(DigitsVal(body, 0)))

\* int(x) for any Python value x
IntOf(x) ==
    CASE x.ty = "str" -> IntOfStr(x.v)
      [] x.ty \in {"int", "bigint"} -> Ok(x)
      [] x.ty = "bool" -> Ok(PyInt(IF x.v THEN 1 ELSE 0))
      [] OTHER -> Raise("TypeError")

\* s.replace("ms", "")
RECURSIVE ReplaceMs(_)
ReplaceMs(s) ==
    IF s = <<>> THEN <<>>
    ELSE IF Len(s) >= 2 /\ s[1] = "m" /\ s[2] = "s" THEN ReplaceMs(SubSeq(s, 3, Len(s)))
    ELSE <<Head(s)>> \o ReplaceMs(Tail(s))

\* the powers of two from 2^44 to 2^50, as the two numbers their decimal
\* digits make when cut eight digits from the right
PowersOfTwo ==
    <<[e |-> 44, hi |-> 175921, lo |-> 86044416],
      [e |-> 45, hi |-> 351843, lo |-> 72088832],
      [e |-> 46, hi |-> 703687, lo |-> 44177664],
      [e |-> 47, hi |-> 1407374, lo |-> 88355328],
      [e |-> 48, hi |-> 2814749, lo |-> 76710656],
      [e |-> 49, hi |-> 5629499, lo |-> 53421312],
      [e |-> 50, hi |-> 11258999, lo |-> 6842624]>>

\* the digits ds read as a number, cut eight digits from the right
HiLo(ds) ==
    IF Len(ds) <= 8 THEN [hi |-> 0, lo |-> DigitsVal(ds, 0)]
    ELSE [hi |-> DigitsVal(SubSeq(ds, 1, Len(ds) - 8), 0),
          lo |-> DigitsVal(SubSeq(ds, Len(ds) - 7, Len(ds)), 0)]

\* floor(log2(k)) for the number k of digits ds, where it is 44 or more and
\* k is below 2^51; 0 for a smaller k
Log2(ds) ==
    LET k == HiLo(ds)
        below == {i \in 1..Len(PowersOfTwo) :
                     \/ PowersOfTwo[i].hi < k.hi
                     \/ PowersOfTwo[i].hi = k.hi /\ PowersOfTwo[i].lo <= k.lo}
    IN  IF below = {} THEN 0
        ELSE PowersOfTwo[CHOOSE i \in below : \A j \in below : j <= i].e

RECURSIVE Pow2(_)
Pow2(n) == IF n = 0 THEN 1 ELSE 2 * Pow2(n - 1)

\* ds + 1, for decimal digits ds
RECURSIVE Incr(_)
Incr(ds) ==
    IF ds = <<>> THEN <<"1">>
    ELSE IF ds[Len(ds)] = "9" THEN Incr(SubSeq(ds, 1, Len(ds) - 1)) \o <<"0">>
    ELSE SubSeq(ds, 1, Len(ds) - 1)
         \o <<CHOOSE c \in Digits : DigitVal(c) = DigitVal(ds[Len(ds)]) + 1>>

\* the most digits of msi for which floor(msi / 1000) is worked out here
\* (the quotient is then below 2^50, so every whole number near it is a float)
MaxMsDigits == 18

\* floor(msi / 1000) for an int msi of more than SmallDigits digits.
\* msi / 1000 is float division: the quotient k + r/1000 is rounded to the
\* nearest float, ties to even. With 2^e <= k < 2^(e+1) the floats near it are
\* 2^(e-52) apart; the quotient is rounded up to the whole number k + 1 when
\* it is within half of that below k + 1, and down to k when within half of
\* that above k. floor() then sees the rounded value.
FloorOfQuotient(msi) ==
    LET n == Len(msi.digits)
        k == SubSeq(msi.digits, 1, n - 3)
        r == DigitsVal(SubSeq(msi.digits, n - 2, n), 0)
        e == Log2(k)
        half == IF e = 0 THEN 1024 ELSE Pow2(52 - e + 1)
        up == r > 0 /\ (1000 - r) * half <= 1000
        down == r = 0 \/ r * half <= 1000
    IN  IF n > MaxMsDigits THEN Raise("beyond the model")
        ELSE IF ~msi.neg THEN Ok(BigInt(FALSE, IF up THEN Incr(k) ELSE k))
        ELSE Ok(BigInt(TRUE, IF down THEN k ELSE Incr(k)))

\* floor(msi / 1000) for an int msi
FloorDiv1000(msi) ==
    IF msi.ty = "int" THEN Ok(PyInt(msi.v \div 1000))
    ELSE The({IF q.exc # "ok" \/ Len(q.v.digits) > SmallDigits THEN q
              ELSE Ok(PyInt((IF q.v.neg THEN 0 - 1 ELSE 1) * DigitsVal(q.v.digits, 0))) :
                 q \in {FloorOfQuotient(msi)}})

\* models._ms_to_sec
MsToSec(msec) ==
    IF msec.ty # "str" THEN Raise("AttributeError")
    ELSE The({IF msi.exc # "ok" THEN msi ELSE FloorDiv1000(msi.v) :
                 msi \in {IntOfStr(Strip(ReplaceMs(msec.v)))}})

-----------------------------------------------------------------------------
(* models.py: the entity decoders *)

\* the class-definition-time default of the dataclass field `at`
\* (`at: datetime = datetime.utcnow()` is evaluated once, at import)
DefaultAt == 0

\* variant: the screensaver flag read from the app payload
ApplicationFromDict_InnerFlag(data) ==
    IF ~IsDict(data) THEN Raise("AttributeError")
    ELSE LET app0 == Get(data, "app", data)
             app == IF app0.ty = "str" THEN Dict("#text" :> app0) ELSE app0
         IN  IF ~IsDict(app) THEN Raise("AttributeError")
             ELSE Ok([ty |-> "Application",
                      app_id |-> Get(app, "@id", None),
                      name |-> Get(app, "#text", None),
                      version |-> Get(app, "@version", None),
                      screensaver |-> Get(app, "screensaver", None) # None])

\* Application.from_dict
ApplicationFromDict(data) ==
    IF ~IsDict(data) THEN Raise("AttributeError")
    ELSE LET app0 == Get(data, "app", data)
             app == IF app0.ty = "str" THEN Dict("#text" :> app0) ELSE app0
         IN  IF ~IsDict(app) THEN Raise("AttributeError")
             ELSE Ok([ty |-> "Application",
                      app_id |-> Get(app, "@id", None),
                      name |-> Get(app, "#text", None),
                      version |-> Get(app, "@version", None),
                      screensaver |-> Get(data, "screensaver", None) # None])

\* `x is not None and x.strip()` / `x is None or not x.strip()`:
\* the attribute lookup fails on anything that is neither None nor a str
StripFails(x) == x.ty \notin {"None", "str"}

NonBlank(x) == x.ty = "str" /\ Strip(x.v) # <<>>

\* helpers.determine_device_name
DetermineDeviceName(brand, friendly_name, default_name, model_name) ==
    IF StripFails(friendly_name) THEN Raise("AttributeError")
    ELSE IF NonBlank(friendly_name) THEN Ok(Str(Strip(friendly_name.v)))
    ELSE IF StripFails(default_name) THEN Raise("AttributeError")
    ELSE IF NonBlank(default_name) THEN Ok(Str(Strip(default_name.v)))
    ELSE IF brand.ty # "str" THEN Raise("AttributeError")
    ELSE IF NonBlank(brand) /\ StripFails(model_name) THEN Raise("AttributeError")
    ELSE IF NonBlank(brand) /\ NonBlank(model_name)
         THEN Ok(Str(Strip(brand.v) \o <<" ">> \o Strip(model_name.v)))
    ELSE IF NonBlank(brand) THEN Ok(Str(Strip(brand.v)))
    ELSE Ok(Str(S_UnknownName))

\* data.get(k, "false") == "true"
Flag(data, k) == EqStr(Get(data, k, Str(S_false)), S_true)

\* Info.from_dict
InfoFromDict(data) ==
    IF ~IsDict(data) THEN Raise("AttributeError")
    ELSE
    LET device_type == IF Flag(data, "is-tv") THEN S_tv
                       ELSE IF Flag(data, "is-stick") THEN S_stick
                       ELSE S_box
        device_name == Get(data, "user-device-name", None)
        model_name == Get(data, "model-name", None)
        brand == Get(data, "vendor-name", Str(S_Roku))
        names == {IF StripFails(device_name) THEN Raise("AttributeError")
                  ELSE IF NonBlank(device_name) THEN Ok(device_name)
                  ELSE DetermineDeviceName(brand,
                                           Get(data, "friendly-device-name", None),
                                           Get(data, "default-device-name", None),
                                           model_name)}
    IN  The({
        IF name.exc # "ok" THEN name
        ELSE Ok([ty |-> "Info",
                 name |-> name.v,
                 brand |-> brand,
                 device_type |-> Str(device_type),
                 device_location |-> Get(data, "user-device-location", None),
                 model_name |-> model_name,
                 model_number |-> Get(data, "model-number", None),
                 network_type |-> Get(data, "network-type", None),
                 network_name |-> Get(data, "network-name", None),
                 serial_number |-> Get(data, "serial-number", None),
                 version |-> Get(data, "software-version", None),
                 ethernet_support |-> Flag(data, "supports-ethernet"),
                 ethernet_mac |-> Get(data, "ethernet-mac", None),
                 wifi_mac |-> Get(data, "wifi-mac", None),
                 supports_airplay |-> Flag(data, "supports-airplay"),
                 supports_find_remote |-> Flag(data, "supports-find-remote"),
                 supports_private_listening |-> Flag(data, "supports-private-listening"),
                 supports_wake_on_wlan |-> Flag(data, "supports-wake-on-wlan"),
                 headphones_connected |-> Flag(data, "headphones-connected")])
        : name \in names})

\* Channel.from_dict: int(strength) under `except ValueError`
ChannelFromDict(data) ==
    IF ~IsDict(data) THEN Raise("AttributeError")
    ELSE
    LET raw == Get(data, "signal-strength", None)
        parsed == {IF raw = None THEN Ok(None) ELSE IntOf(raw)}
        strengths == {IF r.exc = "ValueError" THEN Ok(None) ELSE r : r \in parsed}
    IN  The({
        IF strength.exc # "ok" THEN strength
        ELSE Ok([ty |-> "Channel",
                 name |-> Get(data, "name", None),
                 number |-> Get(data, "number", Str(<<"0">>)),
                 channel_type |-> Get(data, "type", Str(S_unknown)),
                 hidden |-> Flag(data, "user-hidden"),
                 program_title |-> Get(data, "program-title", None),
                 program_description |-> Get(data, "program-description", None),
                 program_rating |-> Get(data, "program-ratings", None),
                 signal_mode |-> Get(data, "signal-mode", None),
                 signal_strength |-> strength.v])
        : strength \in strengths})

\* variant: None only for the state "close"
MediaStateFromDict_CloseOnly(data) ==
    IF ~IsDict(data) THEN Raise("AttributeError")
    ELSE
    LET state == Get(data, "@state", None)
        durations == {MsToSec(Get(data, "duration", Str(<<"0">>)))}
        positions == {MsToSec(Get(data, "position", Str(<<"0">>)))}
    IN  IF EqStr(state, S_close) THEN Ok(None)
        ELSE The({
        IF duration.exc # "ok" THEN duration
        ELSE IF position.exc # "ok" THEN position
        ELSE Ok([ty |-> "MediaState",
                 live |-> Flag(data, "is_live"),
                 paused |-> EqStr(state, S_pause),
                 duration |-> duration.v,
                 position |-> position.v,
                 at |-> DefaultAt])
        : duration \in durations, position \in positions})

\* MediaState.from_dict: None unless @state is "play" or "pause"
MediaStateFromDict(data) ==
    IF ~IsDict(data) THEN Raise("AttributeError")
    ELSE
    LET state == Get(data, "@state", None)
        durations == {MsToSec(Get(data, "duration", Str(<<"0">>)))}
        positions == {MsToSec(Get(data, "position", Str(<<"0">>)))}
    IN  IF ~(EqStr(state, S_play) \/ EqStr(state, S_pause)) THEN Ok(None)
        ELSE The({
        IF duration.exc # "ok" THEN duration
        ELSE IF position.exc # "ok" THEN position
        ELSE Ok([ty |-> "MediaState",
                 live |-> Flag(data, "is_live"),
                 paused |-> EqStr(state, S_pause),
                 duration |-> duration.v,
                 position |-> position.v,
                 at |-> DefaultAt])
        : duration \in durations, position \in positions})

\* State(available=..., standby=...)
State(available, standby) ==
    [ty |-> "State", available |-> available, standby |-> standby, at |-> DefaultAt]

-----------------------------------------------------------------------------
(* models.py: Device *)

\* an attribute that is annotated on the class and never assigned
Unset == [ty |-> "unset"]

\* a Device object before __init__ has assigned anything: the class attributes
ClassDevice ==
    [info |-> Unset, state |-> Unset, apps |-> <<>>, channels |-> <<>>,
     app |-> None, channel |-> None, media |-> None]

\* [Application.from_dict(a) for a in q]: the first exception, or the list
RECURSIVE DecodeApps(_)
DecodeApps(q) ==
    IF q = <<>> THEN Ok(<<>>)
    ELSE The({IF h.exc # "ok" THEN h
              ELSE IF t.exc # "ok" THEN t
              ELSE Ok(<<h.v>> \o t.v) :
                 h \in {ApplicationFromDict(Head(q))}, t \in {DecodeApps(Tail(q))}})

\* [Channel.from_dict(c) for c in q]
RECURSIVE DecodeChannels(_)
DecodeChannels(q) ==
    IF q = <<>> THEN Ok(<<>>)
    ELSE The({IF h.exc # "ok" THEN h
              ELSE IF t.exc # "ok" THEN t
              ELSE Ok(<<h.v>> \o t.v) :
                 h \in {ChannelFromDict(Head(q))}, t \in {DecodeChannels(Tail(q))}})

\* `for x in value` over a truthy value that is not a list: a str yields
\* one-character strs and a dict its keys, on which from_dict's data.get
\* fails; anything else is not iterable
IterFails(value) ==
    IF value.ty \in {"str", "dict"} THEN "AttributeError" ELSE "TypeError"

Done(dev) == [exc |-> "ok", dev |-> dev]

Fail(e, dev) == [exc |-> e, dev |-> dev]

\* variant: the state is assigned only when the object has none yet
SetState_OnlyOnce(dev, data, update_state) ==
    IF update_state /\ dev.state = Unset
    THEN Done([dev EXCEPT !.state = State(Get(data, "available", Bool(FALSE)),
                                          Get(data, "standby", Bool(FALSE)))])
    ELSE Done(dev)

\* models.py 295-299
SetState(dev, data, update_state) ==
    IF update_state
    THEN Done([dev EXCEPT !.state = State(Get(data, "available", Bool(FALSE)),
                                          Get(data, "standby", Bool(FALSE)))])
    ELSE Done(dev)

\* variant: with an `elif "info" in data: self.info = None` branch
SetInfo_ClearsOnFalsy(dev, data) ==
    IF HasKey(data, "info") /\ Truthy(data.v["info"])
    THEN The({IF r.exc # "ok" THEN Fail(r.exc, dev)
              ELSE Done([dev EXCEPT !.info = r.v]) :
                 r \in {InfoFromDict(data.v["info"])}})
    ELSE IF HasKey(data, "info") THEN Done([dev EXCEPT !.info = None])
    ELSE Done(dev)

\* models.py 301-302
SetInfo(dev, data) ==
    IF HasKey(data, "info") /\ Truthy(data.v["info"])
    THEN The({IF r.exc # "ok" THEN Fail(r.exc, dev)
              ELSE Done([dev EXCEPT !.info = r.v]) :
                 r \in {InfoFromDict(data.v["info"])}})
    ELSE Done(dev)

\* variant: `self.apps = [...]` without the guard, an absent key read as []
SetApps_Unguarded(dev, data) ==
    LET value == Get(data, "apps", List(<<>>))
    IN  IF ~Truthy(value) THEN Done([dev EXCEPT !.apps = <<>>])
        ELSE IF value.ty # "list" THEN Fail(IterFails(value), dev)
        ELSE The({IF r.exc # "ok" THEN Fail(r.exc, dev)
                  ELSE Done([dev EXCEPT !.apps = r.v]) :
                     r \in {DecodeApps(value.v)}})

\* models.py 304-309
SetApps(dev, data) ==
    IF HasKey(data, "apps") /\ Truthy(data.v["apps"])
    THEN IF data.v["apps"].ty # "list" THEN Fail(IterFails(data.v["apps"]), dev)
         ELSE The({IF r.exc # "ok" THEN Fail(r.exc, dev)
                   ELSE Done([dev EXCEPT !.apps = r.v]) :
                      r \in {DecodeApps(data.v["apps"].v)}})
    ELSE Done(dev)

\* variant: the decoded channels are added to the list instead of replacing it
SetChannels_Extends(dev, data) ==
    IF HasKey(data, "channels") /\ Truthy(data.v["channels"])
    THEN IF data.v["channels"].ty # "list"
         THEN Fail(IterFails(data.v["channels"]), dev)
         ELSE The({IF r.exc # "ok" THEN Fail(r.exc, dev)
                   ELSE Done([dev EXCEPT !.channels = @ \o r.v]) :
                      r \in {DecodeChannels(data.v["channels"].v)}})
    ELSE Done(dev)

\* models.py 311-316
SetChannels(dev, data) ==
    IF HasKey(data, "channels") /\ Truthy(data.v["channels"])
    THEN IF data.v["channels"].ty # "list"
         THEN Fail(IterFails(data.v["channels"]), dev)
         ELSE The({IF r.exc # "ok" THEN Fail(r.exc, dev)
                   ELSE Done([dev EXCEPT !.channels = r.v]) :
                      r \in {DecodeChannels(data.v["channels"].v)}})
    ELSE Done(dev)

\* variant: without the `elif "app" in data` branch
SetApp_NoElif(dev, data) ==
    IF HasKey(data, "app") /\ Truthy(data.v["app"])
    THEN The({IF r.exc # "ok" THEN Fail(r.exc, dev)
              ELSE Done([dev EXCEPT !.app = r.v]) :
                 r \in {ApplicationFromDict(data.v["app"])}})
    ELSE Done(dev)

\* models.py 318-321
SetApp(dev, data) ==
    IF HasKey(data, "app") /\ Truthy(data.v["app"])
    THEN The({IF r.exc # "ok" THEN Fail(r.exc, dev)
              ELSE Done([dev EXCEPT !.app = r.v]) :
                 r \in {ApplicationFromDict(data.v["app"])}})
    ELSE IF HasKey(data, "app") THEN Done([dev EXCEPT !.app = None])
    ELSE Done(dev)

\* models.py 323-326
SetChannel(dev, data) ==
    IF HasKey(data, "channel") /\ Truthy(data.v["channel"])
    THEN The({IF r.exc # "ok" THEN Fail(r.exc, dev)
              ELSE Done([dev EXCEPT !.channel = r.v]) :
                 r \in {ChannelFromDict(data.v["channel"])}})
    ELSE IF HasKey(data, "channel") THEN Done([dev EXCEPT !.channel = None])
    ELSE Done(dev)

\* models.py 328-331
SetMedia(dev, data) ==
    IF HasKey(data, "media") /\ Truthy(data.v["media"])
    THEN The({IF r.exc # "ok" THEN Fail(r.exc, dev)
              ELSE Done([dev EXCEPT !.media = r.v]) :
                 r \in {MediaStateFromDict(data.v["media"])}})
    ELSE IF HasKey(data, "media") THEN Done([dev EXCEPT !.media = None])
    ELSE Done(dev)

\* Device.update_from_dict: the statements in order; an exception leaves the
\* object as the statements before it made it
UpdateFromDict(dev, data, update_state) ==
    LET s1 == {SetState(dev, data, update_state)}
        s2 == {IF r.exc # "ok" THEN r ELSE SetInfo(r.dev, data) : r \in s1}
        s3 == {IF r.exc # "ok" THEN r ELSE SetApps(r.dev, data) : r \in s2}
        s4 == {IF r.exc # "ok" THEN r ELSE SetChannels(r.dev, data) : r \in s3}
        s5 == {IF r.exc # "ok" THEN r ELSE SetApp(r.dev, data) : r \in s4}
        s6 == {IF r.exc # "ok" THEN r ELSE SetChannel(r.dev, data) : r \in s5}
        s7 == {IF r.exc # "ok" THEN r ELSE SetMedia(r.dev, data) : r \in s6}
    IN  The(s7)

\* variant: __init__ without the check for the three keys
DeviceInit_NoCheck(data) == UpdateFromDict(ClassDevice, data, TRUE)

\* Device.__init__: [exc, dev]; on an exception no object is returned
DeviceInit(data) ==
    IF \E k \in {"info", "available", "standby"} : ~HasKey(data, k)
    THEN Fail("RokuError", ClassDevice)
    ELSE UpdateFromDict(ClassDevice, data, TRUE)

\* dataclasses.asdict(obj), for an instance of one of the dataclasses: the
\* dict of its fields
Asdict(obj) == Dict([f \in DOMAIN obj \ {"ty"} |-> obj[f]])

\* [asdict(x) for x in q]
AsdictEach(q) == List([i \in 1..Len(q) |-> Asdict(q[i])])

\* Device.as_dict: reading an attribute that was never assigned raises
\* AttributeError
AsDict(dev) ==
    IF dev.info = Unset \/ dev.state = Unset THEN Raise("AttributeError")
    ELSE Ok(Dict(("info" :> Asdict(dev.info))
                 @@ ("state" :> Asdict(dev.state))
                 @@ ("apps" :> AsdictEach(dev.apps))
                 @@ ("channels" :> AsdictEach(dev.channels))
                 @@ ("app" :> IF dev.app # None THEN Asdict(dev.app) ELSE None)
                 @@ ("channel" :> IF dev.channel # None THEN Asdict(dev.channel) ELSE None)
                 @@ ("media" :> IF dev.media # None THEN Asdict(dev.media) ELSE None)))

-----------------------------------------------------------------------------
(* rokuecp.py: the endpoint accessors *)

S_channel == <<"c", "h", "a", "n", "n", "e", "l">>

\* x[k] for a str key k
Subscript(x, k) ==
    IF IsDict(x) THEN (IF HasKey(x, k) THEN Ok(x.v[k]) ELSE Raise("KeyError"))
    ELSE Raise("TypeError")

\* sub in s, for strs
IsSubstring(sub, s) ==
    \E i \in 0..(Len(s) - Len(sub)) : SubSeq(s, i + 1, i + Len(sub)) = sub

\* `"channel" in x`: [exc, v] with v a BOOLEAN
ContainsChannel(x) ==
    CASE x.ty = "dict" -> [exc |-> "ok", v |-> HasKey(x, "channel")]
      [] x.ty = "str" -> [exc |-> "ok", v |-> IsSubstring(S_channel, x.v)]
      [] x.ty = "list" ->
            [exc |-> "ok", v |-> \E i \in 1..Len(x.v) : x.v[i] = Str(S_channel)]
      [] OTHER -> [exc |-> "TypeError", v |-> FALSE]

\* `not isinstance(res, dict) or key not in res`
Malformed(res, key) == ~IsDict(res) \/ ~HasKey(res, key)

\* Roku._get_device_info on what _request gave: r is [exc, v]
GetDeviceInfo(r) ==
    IF r.exc # "ok" THEN r
    ELSE IF Malformed(r.v, "device-info") THEN Raise("RokuError")
    ELSE Ok(r.v.v["device-info"])

\* Roku._get_active_app
GetActiveApp(r) ==
    IF r.exc # "ok" THEN r
    ELSE IF Malformed(r.v, "active-app") THEN Raise("RokuError")
    ELSE Ok(r.v.v["active-app"])

\* variant: without the `isinstance(res["apps"]["app"], dict)` branch
GetApps_NoWrap(r) ==
    IF r.exc # "ok" THEN r
    ELSE IF Malformed(r.v, "apps") THEN Raise("RokuError")
    ELSE Subscript(r.v.v["apps"], "app")

\* Roku._get_apps
GetApps(r) ==
    IF r.exc # "ok" THEN r
    ELSE IF Malformed(r.v, "apps") THEN Raise("RokuError")
    ELSE LET app == Subscript(r.v.v["apps"], "app")
         IN  IF app.exc # "ok" THEN app
             ELSE IF IsDict(app.v) THEN Ok(List(<<app.v>>))
             ELSE app

\* Roku._get_media_state
GetMediaState(r) ==
    IF r.exc # "ok" THEN r
    ELSE IF Malformed(r.v, "player") THEN Raise("RokuError")
    ELSE Ok(r.v.v["player"])

\* Roku._get_tv_active_channel
GetTvActiveChannel(r) ==
    IF r.exc # "ok" THEN r
    ELSE IF Malformed(r.v, "tv-channel") THEN Raise("RokuError")
    ELSE Subscript(r.v.v["tv-channel"], "channel")

\* Roku._get_tv_channels
GetTvChannels(r) ==
    IF r.exc # "ok" THEN r
    ELSE IF Malformed(r.v, "tv-channels") THEN Raise("RokuError")
    ELSE LET tv == r.v.v["tv-channels"]
             has == ContainsChannel(tv)
         IN  IF tv = None THEN Ok(List(<<>>))
             ELSE IF has.exc # "ok" THEN Raise(has.exc)
             ELSE IF ~has.v THEN Ok(List(<<>>))
             ELSE LET channel == Subscript(tv, "channel")
                  IN  IF channel.exc # "ok" THEN channel
                      ELSE IF IsDict(channel.v) THEN Ok(List(<<channel.v>>))
                      ELSE channel

\* the accessor update() runs for a task name, and the path it requests
Endpoint(task) ==
    CASE task = "info" -> "/query/device-info"
      [] task = "app" -> "/query/active-app"
      [] task = "media" -> "/query/media-player"
      [] task = "channel" -> "/query/tv-active-channel"
      [] task = "apps" -> "/query/apps"
      [] task = "channels" -> "/query/tv-channels"

Accessor(task, r) ==
    CASE task = "info" -> GetDeviceInfo(r)
      [] task = "app" -> GetActiveApp(r)
      [] task = "media" -> GetMediaState(r)
      [] task = "channel" -> GetTvActiveChannel(r)
      [] task = "apps" -> GetApps(r)
      [] task = "channels" -> GetTvChannels(r)

-----------------------------------------------------------------------------
(* rokuecp.py: Roku.update, one operator per stretch between two awaits *)

\* updates[k] = x
SetItem(d, k, x) == Dict((k :> x) @@ d.v)

\* variant: without `updates["media"] = None`
InitialUpdates_NoMedia(full_update) ==
    LET base == ("info" :> None) @@ ("available" :> Bool(TRUE))
                @@ ("standby" :> Bool(FALSE)) @@ ("app" :> None)
                @@ ("channel" :> None)
    IN  IF full_update
        THEN Dict(base @@ ("apps" :> List(<<>>)) @@ ("channels" :> List(<<>>)))
        ELSE Dict(base)

\* rokuecp.py 210-220
InitialUpdates(full_update) ==
    LET base == ("info" :> None) @@ ("available" :> Bool(TRUE))
                @@ ("standby" :> Bool(FALSE)) @@ ("app" :> None)
                @@ ("channel" :> None) @@ ("media" :> None)
    IN  IF full_update
        THEN Dict(base @@ ("apps" :> List(<<>>)) @@ ("channels" :> List(<<>>)))
        ELSE Dict(base)

\* no direct Device.update_from_dict call is being made
NoMerge ==
    [data |-> EmptyDict, update_state |-> FALSE, exc |-> "none", before |-> ClassDevice]

\* no accessor is being called directly
NoProbe == [task |-> "", res |-> Ok(None), out |-> Ok(None), done |-> FALSE]

\* the frame of a caller that has not called update() yet
\* (history, for the properties: arg is the argument as passed, first whether
\* self._device was None on entry, before the Device on entry, requests the
\* paths requested so far, stage where an exception arose, failed the task
\* whose accessor raised, answered the accessors that have completed, in the
\* order they completed, each with what it returned or raised)
IdleFrame ==
    [pc |-> "idle", arg |-> FALSE, first |-> FALSE, full_update |-> FALSE,
     updates |-> EmptyDict, tasks |-> <<>>, results |-> <<>>,
     requests |-> <<>>, exc |-> "ok", ret |-> 0,
     stage |-> "", failed |-> "", answered |-> <<>>, before |-> ClassDevice]

\* variant: without `if self._device is None: full_update = True`
StartUpdate_AsAsked(full, no_device) ==
    [IdleFrame EXCEPT !.pc = "info", !.arg = full, !.first = no_device,
                      !.full_update = full,
                      !.updates = InitialUpdates(full),
                      !.requests = <<Endpoint("info")>>]

\* variant: the active-app request is sent along with the device-info request
StartUpdate_Eager(full, no_device) ==
    LET full_update == IF no_device THEN TRUE ELSE full
    IN  [IdleFrame EXCEPT !.pc = "info", !.arg = full, !.first = no_device,
                          !.full_update = full_update,
                          !.updates = InitialUpdates(full_update),
                          !.requests = <<Endpoint("info"), Endpoint("app")>>]

\* rokuecp.py 207-222: up to `await self._get_device_info()`
StartUpdate(full, no_device) ==
    LET full_update == IF no_device THEN TRUE ELSE full
    IN  [IdleFrame EXCEPT !.pc = "info", !.arg = full, !.first = no_device,
                          !.full_update = full_update,
                          !.updates = InitialUpdates(full_update),
                          !.requests = <<Endpoint("info")>>]

\* an exception leaves update()
Raised(f, e) == [f EXCEPT !.pc = "raised", !.exc = e, !.stage = f.pc]

\* variant: without the `app_id[:7] != "tvinput"` test
AppTasks_AnyId(app_id) ==
    (IF Truthy(app_id) /\ app_id.ty = "str" THEN <<"media">> ELSE <<>>)
    \o (IF EqStr(app_id, S_tvinput_dtv) THEN <<"channel">> ELSE <<>>)

\* rokuecp.py 237-243 (an XML attribute is a str, or None when missing)
AppTasks(app_id) ==
    (IF Truthy(app_id) /\ app_id.ty = "str" /\ Prefix(app_id.v, 7) # S_tvinput
     THEN <<"media">> ELSE <<>>)
    \o (IF EqStr(app_id, S_tvinput_dtv) THEN <<"channel">> ELSE <<>>)

\* variant: the lists are fetched only from a device that is not in standby
FullTasks_AwakeOnly(full_update, updates, info) ==
    IF full_update /\ Truthy(updates.v["available"]) /\ ~Truthy(updates.v["standby"])
    THEN <<"apps">> \o (IF EqStr(Get(info, "is-tv", Str(S_false)), S_true)
                        THEN <<"channels">> ELSE <<>>)
    ELSE <<>>

\* rokuecp.py 245-251
FullTasks(full_update, updates, info) ==
    IF full_update /\ Truthy(updates.v["available"])
    THEN <<"apps">> \o (IF EqStr(Get(info, "is-tv", Str(S_false)), S_true)
                        THEN <<"channels">> ELSE <<>>)
    ELSE <<>>

\* rokuecp.py 245-254: the futures are created and, if there are any, gathered
Schedule(f, app_tasks) ==
    LET tasks == app_tasks \o FullTasks(f.full_update, f.updates, f.updates.v["info"])
    IN  IF Len(tasks) > 0
        THEN [f EXCEPT !.pc = "gather", !.tasks = tasks,
                       !.requests = @ \o [i \in 1..Len(tasks) |-> Endpoint(tasks[i])]]
        ELSE [f EXCEPT !.pc = "merge"]

\* variant: without the `not updates["standby"]` test before the active-app fetch
AfterDeviceInfo_AlwaysApp(f, r) ==
    IF r.exc # "ok" THEN Raised(f, r.exc)
    ELSE
    LET info == r.v
        f1 == [f EXCEPT !.updates = SetItem(@, "info", info)]
    IN  IF ~IsDict(info) THEN Raised(f1, "AttributeError")
        ELSE
        LET f2 == IF ~EqStr(Get(info, "power-mode", None), S_PowerOn)
                  THEN [f1 EXCEPT !.updates = SetItem(@, "standby", Bool(TRUE))]
                  ELSE f1
        IN  [f2 EXCEPT !.pc = "app", !.requests = Append(@, Endpoint("app"))]

\* variant: a failed device-info fetch is tried a second time
AfterDeviceInfo_RetryOnce(f, r) ==
    IF r.exc # "ok" /\ Len(f.requests) = 1
    THEN [f EXCEPT !.requests = Append(@, Endpoint("info"))]
    ELSE IF r.exc # "ok" THEN Raised(f, r.exc)
    ELSE
    LET info == r.v
        f1 == [f EXCEPT !.updates = SetItem(@, "info", info)]
    IN  IF ~IsDict(info) THEN Raised(f1, "AttributeError")
        ELSE
        LET f2 == IF ~EqStr(Get(info, "power-mode", None), S_PowerOn)
                  THEN [f1 EXCEPT !.updates = SetItem(@, "standby", Bool(TRUE))]
                  ELSE f1
        IN  IF Truthy(f2.updates.v["available"]) /\ ~Truthy(f2.updates.v["standby"])
            THEN [f2 EXCEPT !.pc = "app", !.requests = Append(@, Endpoint("app"))]
            ELSE Schedule(f2, <<>>)

\* rokuecp.py 222-232: r is what _get_device_info returned or raised
AfterDeviceInfo(f, r) ==
    IF r.exc # "ok" THEN Raised(f, r.exc)
    ELSE
    LET info == r.v
        f1 == [f EXCEPT !.updates = SetItem(@, "info", info)]
    IN  IF ~IsDict(info) THEN Raised(f1, "AttributeError")
        ELSE
        LET f2 == IF ~EqStr(Get(info, "power-mode", None), S_PowerOn)
                  THEN [f1 EXCEPT !.updates = SetItem(@, "standby", Bool(TRUE))]
                  ELSE f1
        IN  IF Truthy(f2.updates.v["available"]) /\ ~Truthy(f2.updates.v["standby"])
            THEN [f2 EXCEPT !.pc = "app", !.requests = Append(@, Endpoint("app"))]
            ELSE Schedule(f2, <<>>)

\* rokuecp.py 232-254: r is what _get_active_app returned or raised
AfterActiveApp(f, r) ==
    IF r.exc # "ok" THEN Raised(f, r.exc)
    ELSE
    LET app == r.v
        f1 == [f EXCEPT !.updates = SetItem(@, "app", app)]
        inner == Subscript(app, "app")
    IN  IF inner.exc # "ok" THEN Raised(f1, inner.exc)
        ELSE Schedule(f1, AppTasks(IF IsDict(inner.v)
                                   THEN Get(inner.v, "@id", None) ELSE None))

\* rokuecp.py 256-257: for (task, result) in zip(tasks, results)
RECURSIVE StoreResults(_, _, _)
StoreResults(updates, tasks, results) ==
    IF tasks = <<>> THEN updates
    ELSE StoreResults(SetItem(updates, Head(tasks), results[Head(tasks)]),
                      Tail(tasks), results)

\* variant: results taken in completion order (as from asyncio.as_completed)
\* and zipped with tasks
AfterGathered_AsCompleted(f, task, r) ==
    IF r.exc # "ok" THEN Raised(f, r.exc)
    ELSE
    LET results == (f.tasks[Cardinality(DOMAIN f.results) + 1] :> r.v) @@ f.results
    IN  IF DOMAIN results = {f.tasks[i] : i \in 1..Len(f.tasks)}
        THEN [f EXCEPT !.pc = "merge", !.results = results,
                       !.updates = StoreResults(@, f.tasks, results)]
        ELSE [f EXCEPT !.results = results]

\* variant: gather(..., return_exceptions=True) with a failed result read as None
AfterGathered_Tolerant(f, task, r) ==
    LET results == (task :> (IF r.exc # "ok" THEN None ELSE r.v)) @@ f.results
    IN  IF DOMAIN results = {f.tasks[i] : i \in 1..Len(f.tasks)}
        THEN [f EXCEPT !.pc = "merge", !.results = results,
                       !.updates = StoreResults(@, f.tasks, results)]
        ELSE [f EXCEPT !.results = results]

\* rokuecp.py 254-257: one gathered accessor returned or raised; gather
\* raises the first exception, and returns once every result is in
AfterGathered(f, task, r) ==
    IF r.exc # "ok" THEN Raised(f, r.exc)
    ELSE
    LET results == (task :> r.v) @@ f.results
    IN  IF DOMAIN results = {f.tasks[i] : i \in 1..Len(f.tasks)}
        THEN [f EXCEPT !.pc = "merge", !.results = results,
                       !.updates = StoreResults(@, f.tasks, results)]
        ELSE [f EXCEPT !.results = results]

\* update() returns self._device
Returned(f, d) == [f EXCEPT !.pc = "returned", !.ret = d]

\* variant: `self._device = Device(updates)` on every call
Land_AlwaysNew(f, h, d) ==
    IF f.pc # "merge" THEN [frame |-> f, heap |-> h, device |-> d]
    ELSE The({IF r.exc # "ok"
              THEN [frame |-> Raised(f, r.exc), heap |-> h, device |-> d]
              ELSE [frame |-> Returned(f, Len(h) + 1), heap |-> Append(h, r.dev),
                    device |-> Len(h) + 1] :
                 r \in {DeviceInit(f.updates)}})

\* variant: the merge goes by what the call saw on entry (line 207), and does
\* not look at self._device again
Land_AsSeenOnEntry(f, h, d) ==
    IF f.pc # "merge" THEN [frame |-> f, heap |-> h, device |-> d]
    ELSE IF f.first
    THEN The({IF r.exc # "ok"
              THEN [frame |-> Raised(f, r.exc), heap |-> h, device |-> d]
              ELSE [frame |-> Returned(f, Len(h) + 1), heap |-> Append(h, r.dev),
                    device |-> Len(h) + 1] :
                 r \in {DeviceInit(f.updates)}})
    ELSE The({[frame |-> IF r.exc # "ok" THEN Raised(f, r.exc) ELSE Returned(f, d),
               heap |-> [h EXCEPT ![d] = r.dev], device |-> d] :
                 r \in {UpdateFromDict(h[d], f.updates, TRUE)}})

\* rokuecp.py 259-264: a frame that reached the merge constructs the Device or
\* merges into the one self._device holds at that moment; any other frame is
\* left as it is. [frame, heap, device]
Land(f, h, d) ==
    IF f.pc # "merge" THEN [frame |-> f, heap |-> h, device |-> d]
    ELSE IF d = 0
    THEN The({IF r.exc # "ok"
              THEN [frame |-> Raised(f, r.exc), heap |-> h, device |-> d]
              ELSE [frame |-> Returned(f, Len(h) + 1), heap |-> Append(h, r.dev),
                    device |-> Len(h) + 1] :
                 r \in {DeviceInit(f.updates)}})
    ELSE The({[frame |-> IF r.exc # "ok" THEN Raised(f, r.exc) ELSE Returned(f, d),
               heap |-> [h EXCEPT ![d] = r.dev], device |-> d] :
                 r \in {UpdateFromDict(h[d], f.updates, TRUE)}})

-----------------------------------------------------------------------------
(* the wire: requests the client has sent and the device has not answered *)

Req(c, task) == [c |-> c, task |-> task, live |-> TRUE]

\* the requests a stretch of update() sent
NewRequests(c, f, f2) ==
    IF f2.pc = "app" THEN {Req(c, "app")}
    ELSE IF f2.pc = "gather" /\ f.pc # "gather"
    THEN {Req(c, f2.tasks[i]) : i \in 1..Len(f2.tasks)}
    ELSE {}

\* gather does not cancel its other children when one raises: they run on,
\* and nobody awaits them
Orphaned(w, c) ==
    {IF r.c = c THEN [r EXCEPT !.live = FALSE] ELSE r : r \in w}

\* the caller's coroutine was woken by the accessor result r of `task` and
\* ran from its frame to frame f2
Resume(c, task, r, f2) ==
    LET rest == wire \ {Req(c, task)}
    IN  \E landed \in {Land(f2, heap, device)} :
        /\ calls' = [calls EXCEPT ![c] =
                        [landed.frame EXCEPT
                            !.failed = IF r.exc # "ok" THEN task ELSE @,
                            !.answered = Append(@, [task |-> task, r |-> r])]]
        /\ heap' = landed.heap
        /\ device' = landed.device
        /\ wire' = (IF landed.frame.pc = "raised" THEN Orphaned(rest, c) ELSE rest)
                   \cup NewRequests(c, calls[c], f2)

-----------------------------------------------------------------------------
(* what the device may answer: the values Roku._request returns or raises *)

S_12 == <<"1", "2">>
InfoBoxOn == Dict(("power-mode" :> Str(S_PowerOn)) @@ ("is-tv" :> Str(S_false)))

InfoTvOn == Dict(("power-mode" :> Str(S_PowerOn)) @@ ("is-tv" :> Str(S_true)))

InfoTvOff == Dict(("power-mode" :> Str(S_PowerOff)) @@ ("is-tv" :> Str(S_true)))

AppNetflix ==
    Dict(("@id" :> Str(S_12)) @@ ("#text" :> Str(<<"N">>)) @@ ("@version" :> Str(<<"4">>)))

AppTuner == Dict(("@id" :> Str(S_tvinput_dtv)) @@ ("#text" :> Str(<<"A">>)))

AppHdmi == Dict(("@id" :> Str(S_tvinput_hdmi)) @@ ("#text" :> Str(<<"H">>)))

ChannelOne ==
    Dict(("number" :> Str(<<"1", ".", "1">>)) @@ ("name" :> Str(<<"W">>))
         @@ ("signal-strength" :> Str(<<"-", "7", "5">>)))

ChannelTwo == Dict(("number" :> Str(<<"2">>)) @@ ("user-hidden" :> Str(S_true)))

PlayerPlay ==
    Dict(("@state" :> Str(S_play))
         @@ ("duration" :> Str(<<"6", "4", "9", "6", " ", "m", "s">>))
         @@ ("position" :> Str(<<"3", "8", "9", "9", "9", " ", "m", "s">>)))

PlayerClose == Dict("@state" :> Str(S_close))

\* paused, with a position and no duration
PlayerPause ==
    Dict(("@state" :> Str(S_pause)) @@ ("position" :> Str(<<"1", "5", "0", "0", "m", "s">>)))

\* a <player> without a state attribute
PlayerNoState == Dict("duration" :> Str(<<"6", "4", "9", "6", " ", "m", "s">>))

\* a state that only starts like "play", with a duration that is no number
PlayerStartup ==
    Dict(("@state" :> Str(<<"p", "l", "a", "y", "i", "n", "g">>))
         @@ ("duration" :> Str(<<"n", "/", "a">>)))

\* a duration that is no number
PlayerBad == Dict(("@state" :> Str(S_play)) @@ ("duration" :> Str(<<"n", "/", "a">>)))

\* _request raised
TransportErrors == {Raise("RokuConnectionError")}

\* a body that was not XML (text), and XML with another root element
Unexpected == {Ok(Str(<<"o", "k">>)), Ok(Dict("error" :> None))}

\* <root>x</root> parsed by xmltodict
Xml(root, x) == Ok(Dict(root :> x))

\* a box and a TV powered on, a TV in standby, an element with no children
\* (no power-mode), an empty element
DeviceInfoAnswers ==
    {Xml("device-info", x) : x \in {InfoBoxOn, InfoTvOn, InfoTvOff, EmptyDict, None}}

\* the home screen (<app>Roku</app>), an app, the tuner, another TV input,
\* an empty <app/>, an element with no children, an empty element
ActiveAppAnswers ==
    {Xml("active-app", x) :
        x \in {Dict("app" :> Str(S_Roku)), Dict("app" :> AppNetflix),
               Dict("app" :> AppTuner), Dict("app" :> AppHdmi),
               Dict("app" :> None), EmptyDict, None}}

MediaAnswers == {Xml("player", x) : x \in {PlayerPlay, PlayerClose, PlayerBad}}

TvChannelAnswers ==
    {Xml("tv-channel", x) :
        x \in {Dict("channel" :> ChannelOne), Dict("channel" :> None), EmptyDict}}

AppsAnswers ==
    {Xml("apps", x) :
        x \in {Dict("app" :> List(<<AppNetflix, AppTuner>>)), Dict("app" :> AppNetflix),
               None}}

TvChannelsAnswers ==
    {Xml("tv-channels", x) : x \in {Dict("channel" :> ChannelOne), None}}

Answers(task) ==
    TransportErrors \cup Unexpected \cup
    (CASE task = "info" -> DeviceInfoAnswers
       [] task = "app" -> ActiveAppAnswers
       [] task = "media" -> MediaAnswers
       [] task = "channel" -> TvChannelAnswers
       [] task = "apps" -> AppsAnswers
       [] task = "channels" -> TvChannelsAnswers)

-----------------------------------------------------------------------------
(* rokuecp.py: Roku._request, the session and the hostname cache *)

\* exceptions.py: the classes a handler of RokuError catches
RokuErrors == {"RokuError", "RokuConnectionError", "RokuConnectionTimeoutError"}

\* s.split(sep) for strs
RECURSIVE Split(_, _)
Split(s, sep) ==
    IF \A i \in 1..Len(s) : s[i] # sep THEN <<s>>
    ELSE LET i == CHOOSE i \in 1..Len(s) : s[i] = sep /\ \A j \in 1..(i - 1) : s[j] # sep
         IN  <<SubSeq(s, 1, i - 1)>> \o Split(SubSeq(s, i + 1, Len(s)), sep)

\* one part of a dotted quad: one to three digits, no leading zero, at most 255
IsOctet(s) ==
    /\ Len(s) \in 1..3
    /\ \A i \in 1..Len(s) : s[i] \in Digits
    /\ (Len(s) > 1 => s[1] # "0")
    /\ DigitsVal(s, 0) <= 255

\* helpers.is_ip_address, for the hosts drawn here (IPv4 in dotted quads)
IsIpAddress(host) ==
    LET parts == Split(host, ".")
    IN  Len(parts) = 4 /\ \A i \in 1..4 : IsOctet(parts[i])

\* timedelta(hours=2), in hours
DnsUpdateInterval == 2

\* a ClientSession, and who created it
ClientSession(owner) == [ty |-> "ClientSession", owner |-> owner]

\* Roku(host, session=session), after __post_init__
NewClient(host, session) ==
    [host |-> Str(host), session |-> session, close_session |-> FALSE,
     dns_lookup |-> ~IsIpAddress(host), dns_ip_address |-> None,
     dns_resolved_at |-> None, dns_update_interval |-> None]

\* no client is being used
NoClient == NewClient(<<>>, None)

\* Roku.get_dns_state
GetDnsState(r) ==
    [enabled |-> r.dns_lookup,
     hostname |-> IF r.dns_lookup THEN r.host ELSE None,
     ip_address |-> r.dns_ip_address,
     resolved_at |-> r.dns_resolved_at]

\* rokuecp.py 63-64
WithInterval(r) ==
    IF r.dns_update_interval = None
    THEN [r EXCEPT !.dns_update_interval = PyInt(DnsUpdateInterval)]
    ELSE r

\* variant: the cached address is used for as long as there is one
NeedsResolve_OnlyOnce(r, t) == r.dns_ip_address = None

\* rokuecp.py 66-70: `self._dns_ip_address is None or update`, at time t
NeedsResolve(r, t) ==
    \/ r.dns_ip_address = None
    \/ r.dns_resolved_at = None
    \/ t >= r.dns_resolved_at.v + WithInterval(r).dns_update_interval.v

\* helpers.resolve_hostname on what the resolver returned (a list of host
\* strs) or raised
ResolveHostname(answer) ==
    IF answer.exc \in {"OSError", "gaierror"} THEN Raise("RokuConnectionError")
    ELSE IF answer.exc # "ok" THEN answer
    ELSE IF \E i \in 1..Len(answer.v.v) : ~IsIpAddress(answer.v.v[i].v)
    THEN Raise("RokuConnectionError")
    ELSE Ok(answer.v.v[1])

\* variant: a failed resolution forgets the cached address
Resolved_ForgetOnFailure(r, res, t) ==
    IF res.exc # "ok" THEN [r EXCEPT !.dns_ip_address = None, !.dns_resolved_at = None]
    ELSE [r EXCEPT !.dns_ip_address = res.v, !.dns_resolved_at = PyInt(t)]

\* rokuecp.py 71-73: resolve_hostname returned or raised res, at time t
Resolved(r, res, t) ==
    IF res.exc # "ok" THEN r
    ELSE [r EXCEPT !.dns_ip_address = res.v, !.dns_resolved_at = PyInt(t)]

\* variant: a session of its own for every client, whatever it was given
WithSession_AlwaysOwn(r) ==
    IF r.session = None \/ ~r.close_session
    THEN [r EXCEPT !.session = ClientSession("client"), !.close_session = TRUE]
    ELSE r

\* rokuecp.py 122-124
WithSession(r) ==
    IF r.session = None
    THEN [r EXCEPT !.session = ClientSession("client"), !.close_session = TRUE]
    ELSE r

\* Roku.close_session: the sessions it closes
ClosedBy(r) ==
    IF r.session # None /\ r.close_session THEN {r.session.owner} ELSE {}

\* the characters of s as one string
RECURSIVE Join(_)
Join(s) == IF s = <<>> THEN "" ELSE Head(s) \o Join(Tail(s))

NameChars == {"a", "b", "p", "s", "x", "-"}

IsName(s) == s # <<>> /\ \A i \in 1..Len(s) : s[i] \in NameChars

\* xmltodict.parse, for documents of one element that has no attribute and no
\* child: <name/> and <name></name> give {name: None}, <name>text</name>
\* gives {name: text}; anything else drawn here is not well formed
ParseXml(s) ==
    LET n == Len(s)
        opens == {i \in 3..n : s[1] = "<" /\ s[i] = ">" /\ IsName(SubSeq(s, 2, i - 1))}
    IN  IF n >= 4 /\ s[1] = "<" /\ s[n - 1] = "/" /\ s[n] = ">" /\ IsName(SubSeq(s, 2, n - 2))
        THEN Ok(Dict(Join(SubSeq(s, 2, n - 2)) :> None))
        ELSE IF opens = {} THEN Raise("ExpatError")
        ELSE LET i == CHOOSE i \in opens : TRUE
                 name == SubSeq(s, 2, i - 1)
                 close == <<"<", "/">> \o name \o <<">">>
                 text == SubSeq(s, i + 1, n - Len(close))
             IN  IF n - i >= Len(close) /\ SubSeq(s, n - Len(close) + 1, n) = close
                    /\ \A j \in 1..Len(text) : text[j] \notin {"<", ">"}
                 THEN Ok(Dict(Join(name) :> (IF Strip(text) = <<>> THEN None
                                             ELSE Str(Strip(text)))))
                 ELSE Raise("ExpatError")

S_application_xml == <<"a", "p", "p", "l", "i", "c", "a", "t", "i", "o", "n", "/", "x", "m", "l">>

S_text_xml == <<"t", "e", "x", "t", "/", "x", "m", "l">>

\* rokuecp.py 126-142: session.request returned a response or raised
Exchanged(outcome) ==
    CASE outcome.exc = "TimeoutError" -> Raise("RokuConnectionTimeoutError")
      [] outcome.exc \in {"ClientError", "gaierror"} -> Raise("RokuConnectionError")
      [] OTHER -> outcome

\* rokuecp.py 144-170: the body of the response was read (a str) or reading
\* it raised
Answered(response, body) ==
    IF body.exc # "ok" THEN body
    ELSE IF response.status \div 100 \in {4, 5}
    THEN [exc |-> "RokuError",
          v |-> Dict(("content-type" :> Str(response.content_type))
                     @@ ("message" :> body.v)
                     @@ ("status-code" :> PyInt(response.status)))]
    ELSE IF \/ IsSubstring(S_application_xml, response.content_type)
            \/ IsSubstring(S_text_xml, response.content_type)
    THEN The({IF data.exc # "ok" THEN Raise("RokuError") ELSE data :
                 data \in {ParseXml(body.v.v)}})
    ELSE body

\* no request has been made
\* (history, for the properties: before is the client as the call found it,
\* started the time of the call, resolver whether the call invoked the
\* resolver, answer what the resolver gave and answered_at when, sent whether
\* an HTTP request was sent, exchange what session.request gave, body what
\* reading the body gave, closed the sessions that were closed, ended
\* whether close_session() was called)
NoRequest ==
    [pc |-> "idle", out |-> Ok(None), before |-> NoClient, started |-> 0,
     resolver |-> FALSE, answer |-> Raise("none"), answered_at |-> 0,
     sent |-> FALSE, exchange |-> Raise("none"),
     response |-> [status |-> 0, content_type |-> <<>>],
     body |-> Raise("none"), closed |-> {}, ended |-> FALSE]

-----------------------------------------------------------------------------
(* rokuecp.py: the commands remote, literal, tune and launch *)

\* const.py: VALID_REMOTE_KEYS
VALID_REMOTE_KEYS ==
    [home |-> "Home", reverse |-> "Rev", forward |-> "Fwd", play |-> "Play",
     select |-> "Select", left |-> "Left", right |-> "Right", down |-> "Down",
     up |-> "Up", back |-> "Back", replay |-> "InstantReplay", info |-> "Info",
     backspace |-> "Backspace", search |-> "Search", enter |-> "Enter",
     find_remote |-> "FindRemote", volume_down |-> "VolumeDown",
     volume_up |-> "VolumeUp", volume_mute |-> "VolumeMute",
     channel_up |-> "ChannelUp", channel_down |-> "ChannelDown",
     input_tuner |-> "InputTuner", input_hdmi1 |-> "InputHDMI1",
     input_hdmi2 |-> "InputHDMI2", input_hdmi3 |-> "InputHDMI3",
     input_hdmi4 |-> "InputHDMI4", input_av1 |-> "InputAV1",
     power |-> "Power", poweroff |-> "PowerOff", poweron |-> "PowerOn"]

UpperCase ==
    <<"A", "B", "C", "D", "E", "F", "G", "H", "I", "J", "K", "L", "M",
      "N", "O", "P", "Q", "R", "S", "T", "U", "V", "W", "X", "Y", "Z">>

LowerCase ==
    <<"a", "b", "c", "d", "e", "f", "g", "h", "i", "j", "k", "l", "m",
      "n", "o", "p", "q", "r", "s", "t", "u", "v", "w", "x", "y", "z">>

\* str.lower, for ASCII strs
Lower(s) ==
    [i \in 1..Len(s) |->
        IF \E j \in 1..Len(UpperCase) : UpperCase[j] = s[i]
        THEN LowerCase[CHOOSE j \in 1..Len(UpperCase) : UpperCase[j] = s[i]]
        ELSE s[i]]

\* urllib.parse.quote_plus: the characters it leaves alone
AlwaysSafe ==
    {UpperCase[j] : j \in 1..Len(UpperCase)} \cup {LowerCase[j] : j \in 1..Len(LowerCase)}
    \cup {"0", "1", "2", "3", "4", "5", "6", "7", "8", "9", "_", ".", "-", "~"}

\* the percent escapes of the other ASCII characters used here
PercentCodes ==
    ("@" :> "%40") @@ ("+" :> "%2B") @@ ("/" :> "%2F") @@ ("&" :> "%26")
    @@ ("=" :> "%3D") @@ ("?" :> "%3F") @@ ("%" :> "%25")

\* urllib.parse.quote_plus(s): the escaped text, as one string
RECURSIVE QuotePlus(_)
QuotePlus(s) ==
    IF s = <<>> THEN ""
    ELSE (CASE Head(s) = " " -> "+"
            [] Head(s) \in AlwaysSafe -> Head(s)
            [] OTHER -> PercentCodes[Head(s)]) \o QuotePlus(Tail(s))

\* urllib.parse.urlencode(params), params a dict of strs in insertion order:
\* a sequence of <<key, value>>
RECURSIVE UrlEncode(_)
UrlEncode(params) ==
    IF params = <<>> THEN ""
    ELSE QuotePlus(Head(params)[1]) \o "=" \o QuotePlus(Head(params)[2])
         \o (IF Len(params) > 1 THEN "&" ELSE "") \o UrlEncode(Tail(params))

\* a call of Roku._request(uri, method="POST")
Post(uri) == [method |-> "POST", uri |-> uri]

\* variant: the key is looked up as given, without lower-casing it
RemoteRequests_CaseSensitive(key) ==
    LET key_lower == Join(key)
    IN  IF key_lower \notin DOMAIN VALID_REMOTE_KEYS THEN Raise("RokuError")
        ELSE IF key_lower = "search" THEN Ok(List(<<Post("search/browse")>>))
        ELSE Ok(List(<<Post("keypress/" \o VALID_REMOTE_KEYS[key_lower])>>))

\* Roku.remote(key): the exception of line 321, or the request it awaits
RemoteRequests(key) ==
    LET key_lower == Join(Lower(key))
    IN  IF key_lower \notin DOMAIN VALID_REMOTE_KEYS THEN Raise("RokuError")
        ELSE IF key_lower = "search" THEN Ok(List(<<Post("search/browse")>>))
        ELSE Ok(List(<<Post("keypress/" \o VALID_REMOTE_KEYS[key_lower])>>))

\* Roku.literal(text): the requests of the loop, one per iteration
LiteralRequests(text) ==
    Ok(List([i \in 1..Len(text) |-> Post("keypress/Lit_" \o QuotePlus(<<text[i]>>))]))

\* Roku.launch(app_id, params)
LaunchRequests(app_id, params) ==
    Ok(List(<<Post("launch/" \o Join(app_id) \o "?" \o UrlEncode(params))>>))

\* Roku.tune(channel)
TuneRequests(channel) ==
    LaunchRequests(<<"t", "v", "i", "n", "p", "u", "t", ".", "d", "t", "v">>,
                   <<<<<<"c", "h">>, channel>>>>)

\* the requests a command awaits one after the other, or what it raises
\* before the first
Requests(op, arg) ==
    CASE op = "remote" -> RemoteRequests(arg)
      [] op = "literal" -> LiteralRequests(arg)
      [] op = "tune" -> TuneRequests(arg)
      [] op = "launch" -> LaunchRequests(arg[1], arg[2])

\* no command has been called
NoCommand ==
    [pc |-> "idle", op |-> "", arg |-> <<>>, todo |-> <<>>, posted |-> <<>>,
     answered |-> 0, out |-> Ok(None)]

\* the command is called and runs to its first await, or to its end
Called(op, arg) ==
    The({IF plan.exc # "ok"
         THEN [NoCommand EXCEPT !.pc = "done", !.op = op, !.arg = arg, !.out = plan]
         ELSE IF plan.v.v = <<>>
         THEN [NoCommand EXCEPT !.pc = "done", !.op = op, !.arg = arg]
         ELSE [NoCommand EXCEPT !.pc = "awaiting", !.op = op, !.arg = arg,
                                !.todo = Tail(plan.v.v),
                                !.posted = <<Head(plan.v.v)>>]
         : plan \in {Requests(op, arg)}})

\* variant: a failed request is noted and the loop goes on
Awaited_KeepsGoing(c, outcome) ==
    IF c.todo = <<>>
    THEN [c EXCEPT !.pc = "done", !.answered = @ + 1,
                   !.out = IF outcome.exc # "ok" THEN outcome ELSE @]
    ELSE [c EXCEPT !.answered = @ + 1, !.todo = Tail(@),
                   !.posted = Append(@, Head(c.todo)),
                   !.out = IF outcome.exc # "ok" THEN outcome ELSE @]

\* the awaited Roku._request returns or raises: the command goes on to its
\* next await, returns, or lets the exception through
Awaited(c, outcome) ==
    IF outcome.exc # "ok"
    THEN [c EXCEPT !.pc = "done", !.answered = @ + 1, !.out = outcome]
    ELSE IF c.todo = <<>>
    THEN [c EXCEPT !.pc = "done", !.answered = @ + 1]
    ELSE [c EXCEPT !.answered = @ + 1, !.todo = Tail(@),
                   !.posted = Append(@, Head(c.todo))]

-----------------------------------------------------------------------------
(* the client: one Roku object, its callers and the device *)

Callers == {"a", "b"}

\* the caller that awaits each update() before calling the next
Serial == {"a"}

Init ==
    /\ heap = <<>>
    /\ device = 0
    /\ calls = [c \in Callers |-> IdleFrame]
    /\ wire = {}
    /\ merge = NoMerge
    /\ probe = NoProbe
    /\ now = 0
    /\ roku = NoClient
    /\ http = NoRequest
    /\ control = NoCommand

\* how many requests of calls that have already raised may still be
\* unanswered when the caller calls update() again
MaxLinger == 1

\* a caller calls roku.update(full_update)
Update(c) ==
    /\ calls[c].pc \in {"idle", "returned", "raised"}
    /\ Cardinality({q \in wire : ~q.live}) <= MaxLinger
    /\ \E full \in BOOLEAN :
          calls' = [calls EXCEPT ![c] =
                       [StartUpdate(full, device = 0) EXCEPT
                           !.before = IF device = 0 THEN ClassDevice ELSE heap[device]]]
    /\ wire' = wire \cup {Req(c, "info")}
    /\ UNCHANGED <<heap, device, merge, probe, now, roku, http, control>>

\* the answer to /query/device-info arrives
DeviceInfoResponse(c) ==
    /\ calls[c].pc = "info"
    /\ Req(c, "info") \in wire
    /\ \E answer \in Answers("info") :
          \E r \in {Accessor("info", answer)} :
              Resume(c, "info", r, AfterDeviceInfo(calls[c], r))
    /\ UNCHANGED <<merge, probe, now, roku, http, control>>

\* the answer to /query/active-app arrives
ActiveAppResponse(c) ==
    /\ calls[c].pc = "app"
    /\ Req(c, "app") \in wire
    /\ \E answer \in Answers("app") :
          \E r \in {Accessor("app", answer)} :
              Resume(c, "app", r, AfterActiveApp(calls[c], r))
    /\ UNCHANGED <<merge, probe, now, roku, http, control>>

\* the answer to one of the gathered requests arrives, in any order
GatheredResponse(c) ==
    /\ calls[c].pc = "gather"
    /\ \E i \in 1..Len(calls[c].tasks) :
          LET task == calls[c].tasks[i]
          IN  /\ Req(c, task) \in wire
              /\ \E answer \in Answers(task) :
                    \E r \in {Accessor(task, answer)} :
                        Resume(c, task, r, AfterGathered(calls[c], task, r))
    /\ UNCHANGED <<merge, probe, now, roku, http, control>>

\* the answer to a request whose update() has already raised arrives
OrphanResponse(c) ==
    /\ \E q \in wire : q.c = c /\ ~q.live /\ wire' = wire \ {q}
    /\ UNCHANGED <<heap, device, calls, merge, probe, now, roku, http, control>>

Next ==
    \E c \in Serial :
        \/ Update(c)
        \/ DeviceInfoResponse(c)
        \/ ActiveAppResponse(c)
        \/ GatheredResponse(c)
        \/ OrphanResponse(c)

Spec == Init /\ [][Next]_vars

-----------------------------------------------------------------------------
(* two update() calls on one client, neither awaited before the other starts *)

\* what the device answers while two calls are in flight
OverlapAnswers(task) ==
    CASE task = "info" -> TransportErrors \cup {Xml("device-info", x) : x \in {InfoTvOn, InfoTvOff}}
      [] task = "app" ->
            {Xml("active-app", x) : x \in {Dict("app" :> AppNetflix), Dict("app" :> AppTuner)}}
      [] task = "media" -> {Xml("player", PlayerPlay)}
      [] task = "channel" -> {Xml("tv-channel", Dict("channel" :> ChannelOne))}
      [] task = "apps" -> TransportErrors \cup {Xml("apps", Dict("app" :> AppNetflix))}
      [] task = "channels" -> {Xml("tv-channels", Dict("channel" :> ChannelOne))}

\* the stretch of update() that the result r of `task` wakes
Continue(f, task, r) ==
    CASE f.pc = "info" -> AfterDeviceInfo(f, r)
      [] f.pc = "app" -> AfterActiveApp(f, r)
      [] f.pc = "gather" -> AfterGathered(f, task, r)

\* a caller calls roku.update(full_update) for the first time, whatever the
\* other caller is doing
FirstUpdate(c) ==
    /\ calls[c].pc = "idle"
    /\ \E full \in BOOLEAN :
          calls' = [calls EXCEPT ![c] =
                       [StartUpdate(full, device = 0) EXCEPT
                           !.before = IF device = 0 THEN ClassDevice ELSE heap[device]]]
    /\ wire' = wire \cup {Req(c, "info")}
    /\ UNCHANGED <<heap, device, merge, probe, now, roku, http, control>>

\* the answer to a request of a call in flight arrives
Response(c) ==
    /\ \E q \in wire :
          /\ q.c = c /\ q.live
          /\ \E answer \in OverlapAnswers(q.task) :
                \E r \in {Accessor(q.task, answer)} :
                    Resume(c, q.task, r, Continue(calls[c], q.task, r))
    /\ UNCHANGED <<merge, probe, now, roku, http, control>>

NextOverlap ==
    \E c \in Callers :
        \/ FirstUpdate(c)
        \/ Response(c)
        \/ OrphanResponse(c)

SpecOverlap == Init /\ [][NextOverlap]_vars

-----------------------------------------------------------------------------
(* Device.update_from_dict called directly on a Device, with any payload *)

\* the most keys a payload of a direct call carries
MaxPayloadKeys == 2

\* an Info payload whose name element has children: its strip() fails
InfoOdd == Dict("user-device-name" :> EmptyDict)

\* a channel whose signal-strength element has children: int() of a dict
ChannelOdd == Dict("signal-strength" :> EmptyDict)

\* the values a payload may carry under each key
PayloadValues(k) ==
    CASE k = "info" -> {None, EmptyDict, InfoTvOn, InfoOdd}
      [] k = "apps" -> {None, List(<<>>), List(<<AppNetflix>>), List(<<AppTuner, AppNetflix>>)}
      [] k = "channels" -> {List(<<>>), List(<<ChannelOne>>)}
      [] k = "app" -> {None, EmptyDict, Dict("app" :> AppNetflix), AppHdmi, Dict("app" :> None)}
      [] k = "channel" -> {None, EmptyDict, ChannelOne, ChannelOdd}
      [] k = "media" -> {None, EmptyDict, PlayerPlay, PlayerClose, PlayerBad,
                         PlayerPause, PlayerNoState, PlayerStartup}
      [] k = "available" -> {Bool(TRUE)}
      [] k = "standby" -> {Bool(TRUE)}

PayloadKeys ==
    {"info", "apps", "channels", "app", "channel", "media", "available", "standby"}

\* every value a payload may carry under some key
AnyPayloadValue == UNION {PayloadValues(k) : k \in PayloadKeys}

\* every dict over exactly the keys K, each with one of its values
DictsOver(K) ==
    {f \in [K -> AnyPayloadValue] : \A k \in K : f[k] \in PayloadValues(k)}

Payloads ==
    {Dict(f) : f \in UNION {DictsOver(K) :
                    K \in {S \in SUBSET PayloadKeys : Cardinality(S) <= MaxPayloadKeys}}}

\* the payloads the Device is constructed from: the three required keys, and
\* each of the others absent or populated
FirstPayloads ==
    {Dict(("info" :> InfoBoxOn) @@ ("available" :> Bool(TRUE)) @@ ("standby" :> Bool(FALSE))
          @@ lists @@ app @@ channel @@ media) :
        lists \in {<<>>, ("apps" :> List(<<AppNetflix, AppTuner>>))
                         @@ ("channels" :> List(<<ChannelOne, ChannelTwo>>))},
        app \in {<<>>, "app" :> Dict("app" :> AppTuner)},
        channel \in {<<>>, "channel" :> ChannelOne},
        media \in {<<>>, "media" :> PlayerPlay}}

\* a Device, and the arguments of the call about to be made on it
\* (merge.before is history: the Device as the call found it)
InitMerge ==
    /\ \E first \in FirstPayloads :
          \E r \in {DeviceInit(first)} : r.exc = "ok" /\ heap = <<r.dev>>
    /\ device = 1
    /\ calls = [c \in Callers |-> IdleFrame]
    /\ wire = {}
    /\ \E data \in Payloads, update_state \in BOOLEAN :
          merge = [data |-> data, update_state |-> update_state, exc |-> "pending",
                   before |-> ClassDevice]
    /\ probe = NoProbe
    /\ now = 0
    /\ roku = NoClient
    /\ http = NoRequest
    /\ control = NoCommand

\* device.update_from_dict(data, update_state)
DirectUpdate ==
    /\ merge.exc = "pending"
    /\ \E r \in {UpdateFromDict(heap[device], merge.data, merge.update_state)} :
           /\ heap' = [heap EXCEPT ![device] = r.dev]
           /\ merge' = [merge EXCEPT !.exc = r.exc, !.before = heap[device]]
    /\ UNCHANGED <<device, calls, wire, probe, now, roku, http, control>>

NextMerge == DirectUpdate

SpecMerge == InitMerge /\ [][NextMerge]_vars

-----------------------------------------------------------------------------
(* Device.as_dict called on a Device, before or after a direct update *)

\* device.as_dict(): probe.res is the Device as the call found it
CallAsDict ==
    /\ ~probe.done
    /\ probe' = [task |-> "as_dict", res |-> Ok(heap[device]),
                 out |-> AsDict(heap[device]), done |-> TRUE]
    /\ UNCHANGED <<heap, device, calls, wire, merge, now, roku, http, control>>

NextSnapshot == DirectUpdate \/ CallAsDict

SpecSnapshot == InitMerge /\ [][NextSnapshot]_vars

-----------------------------------------------------------------------------
(* Device(data) called directly, with any payload *)

\* the keys Device.__init__ insists on, and the others
RequiredKeys == {"info", "available", "standby"}

OptionalKeys == PayloadKeys \ RequiredKeys

\* any of the required keys, with up to MaxPayloadKeys of the others
ConstructorPayloads ==
    {Dict(req @@ opt) :
        req \in UNION {DictsOver(K) : K \in SUBSET RequiredKeys},
        opt \in UNION {DictsOver(K) :
                    K \in {S \in SUBSET OptionalKeys : Cardinality(S) <= MaxPayloadKeys}}}

\* no Device yet, and the argument of the constructor call about to be made
InitConstruct ==
    /\ heap = <<>>
    /\ device = 0
    /\ calls = [c \in Callers |-> IdleFrame]
    /\ wire = {}
    /\ \E data \in ConstructorPayloads :
          merge = [data |-> data, update_state |-> TRUE, exc |-> "pending",
                   before |-> ClassDevice]
    /\ probe = NoProbe
    /\ now = 0
    /\ roku = NoClient
    /\ http = NoRequest
    /\ control = NoCommand

\* Device(data): the object exists only if __init__ returned
Construct ==
    /\ merge.exc = "pending"
    /\ \E r \in {DeviceInit(merge.data)} :
           /\ heap' = IF r.exc = "ok" THEN Append(heap, r.dev) ELSE heap
           /\ merge' = [merge EXCEPT !.exc = r.exc]
    /\ UNCHANGED <<device, calls, wire, probe, now, roku, http, control>>

NextConstruct == Construct

SpecConstruct == InitConstruct /\ [][NextConstruct]_vars

-----------------------------------------------------------------------------
(* an endpoint accessor called directly, on any transport result *)

Tasks == {"info", "app", "media", "channel", "apps", "channels"}

\* the root element of the endpoint's XML document
Root(task) ==
    CASE task = "info" -> "device-info"
      [] task = "app" -> "active-app"
      [] task = "media" -> "player"
      [] task = "channel" -> "tv-channel"
      [] task = "apps" -> "apps"
      [] task = "channels" -> "tv-channels"

\* root elements of other shapes than Answers has: text only, empty, without
\* children, with an unrelated child, with several children of the same name
OddBodies(task) ==
    {Str(<<"x">>), None, EmptyDict, Dict("x" :> None)}
    \cup (CASE task = "apps" -> {Dict("app" :> Str(<<"N">>)), Dict("app" :> List(<<>>))}
            [] task = "channels" ->
                  {Dict("channel" :> List(<<ChannelOne, ChannelTwo>>)),
                   Str(<<"n", "o", " ", "c", "h", "a", "n", "n", "e", "l", "s">>)}
            [] OTHER -> {})

\* what _request may hand to the accessor of `task`
TransportResults(task) ==
    Answers(task) \cup {Xml(Root(task), x) : x \in OddBodies(task)}

InitAccessor ==
    /\ heap = <<>>
    /\ device = 0
    /\ calls = [c \in Callers |-> IdleFrame]
    /\ wire = {}
    /\ merge = NoMerge
    /\ \E task \in Tasks : \E res \in TransportResults(task) :
          probe = [task |-> task, res |-> res, out |-> Ok(None), done |-> FALSE]
    /\ now = 0
    /\ roku = NoClient
    /\ http = NoRequest
    /\ control = NoCommand

\* await self._get_<endpoint>(), _request having returned or raised probe.res
CallAccessor ==
    /\ ~probe.done
    /\ probe' = [probe EXCEPT !.out = Accessor(probe.task, probe.res), !.done = TRUE]
    /\ UNCHANGED <<heap, device, calls, wire, merge, now, roku, http, control>>

NextAccessor == CallAccessor

SpecAccessor == InitAccessor /\ [][NextAccessor]_vars

-----------------------------------------------------------------------------
(* an entity decoder called directly, on any payload *)

Entities == {"Application", "Info", "Channel", "MediaState"}

Decoder(entity, data) ==
    CASE entity = "Application" -> ApplicationFromDict(data)
      [] entity = "Info" -> InfoFromDict(data)
      [] entity = "Channel" -> ChannelFromDict(data)
      [] entity = "MediaState" -> MediaStateFromDict(data)

\* durations and positions as the device reports them: "<n> ms" and "<n>ms",
\* from nothing to more than a million years
MsStrings ==
    {<<"0", " ", "m", "s">>,
     <<"9", "9", "9", "m", "s">>,
     <<"1", "0", "0", "0", " ", "m", "s">>,
     <<"3", "8", "9", "9", "9", " ", "m", "s">>,
     <<"6", "4", "9", "6", " ", "m", "s">>,
     <<"1", "5", "0", "0", "m", "s">>,
     <<"2", "1", "4", "7", "4", "8", "3", "6", "4", "8", "0", "0", "0", " ", "m", "s">>,
     <<"1", "7", "5", "9", "2", "1", "8", "6", "0", "4", "4", "4", "1", "5", "9", "9", "9", " ", "m", "s">>,
     <<"1", "7", "5", "9", "2", "1", "8", "6", "0", "4", "4", "4", "1", "6", "9", "9", "9", " ", "m", "s">>,
     <<"3", "5", "1", "8", "4", "3", "7", "2", "0", "8", "8", "8", "3", "1", "9", "9", "9", "m", "s">>}

\* <player> elements that are playing or paused, each of duration and
\* position absent or one of MsStrings
MediaPayloads ==
    {Dict(("@state" :> Str(state)) @@ duration @@ position) :
        state \in {S_play, S_pause},
        duration \in {<<>>} \cup {"duration" :> Str(m) : m \in MsStrings},
        position \in {<<>>} \cup {"position" :> Str(m) : m \in MsStrings}}

\* what a <signal-strength> element may parse to: numbers, with a sign, white
\* space or an underscore, text that is no number, an empty string, an empty
\* element (None), an element with an attribute, a repeated element
StrengthValues ==
    {Str(<<"-", "7", "5">>), Str(<<"4", "2">>), Str(<<"+", "5">>), Str(<<" ", "7", " ">>),
     Str(<<"1", "_", "0">>), Str(<<"0">>),
     Str(<<"n", "/", "a">>), Str(<<>>), Str(<<"-">>), Str(<<"7", ".", "5">>),
     None, EmptyDict,
     Dict(("@unit" :> Str(<<"d", "B">>)) @@ ("#text" :> Str(<<"-", "7", "5">>))),
     List(<<Str(<<"-", "7", "5">>), Str(<<"-", "7", "0">>)>>)}

\* <channel> elements without a signal-strength child and with each of
\* StrengthValues
ChannelPayloads ==
    {ChannelTwo} \cup
    {Dict(("signal-strength" :> x) @@ c.v) : x \in StrengthValues, c \in {ChannelOne, ChannelTwo}}

\* the elements of <device-info> that the name is made of
NameKeys ==
    {"user-device-name", "friendly-device-name", "default-device-name",
     "vendor-name", "model-name"}

\* a letter for each, so that the names differ
Letter(k) ==
    CASE k = "user-device-name" -> "U"
      [] k = "friendly-device-name" -> "F"
      [] k = "default-device-name" -> "D"
      [] k = "vendor-name" -> "V"
      [] k = "model-name" -> "M"

\* what such an element may parse to: an empty element (None), blanks, a
\* name, a name with blanks around it
NameValues(k) ==
    {None, Str(<<" ">>), Str(<<Letter(k)>>), Str(<<" ", Letter(k), "\t">>)}

AnyNameValue == UNION {NameValues(k) : k \in NameKeys}

\* <device-info> elements with any of the name elements, each with one of
\* its values
InfoPayloads ==
    {Dict(f) : f \in UNION {{g \in [K -> AnyNameValue] : \A k \in K : g[k] \in NameValues(k)} :
                               K \in SUBSET NameKeys}}

\* the screensaver that is running, as <active-app> reports it
Saver == Dict(("@id" :> Str(<<"5">>)) @@ ("#text" :> Str(<<"S">>)))

\* what an <app> element may parse to: an app, the tuner, the home screen
\* (text only), an app with a child named screensaver, an empty element
AppValues ==
    {AppNetflix, AppTuner, Str(S_Roku), Dict(("screensaver" :> Saver) @@ AppNetflix.v),
     Dict("@id" :> Str(S_12)), None}

\* entries of the apps list, and <active-app> elements: an <app> child, with
\* no <screensaver> child, an empty one, or one that names the screensaver
ApplicationPayloads ==
    {a \in AppValues : IsDict(a)} \cup {EmptyDict}
    \cup {Dict(("app" :> a) @@ saver) :
            a \in AppValues,
            saver \in {<<>>, "screensaver" :> None, "screensaver" :> Saver,
                       "screensaver" :> Str(<<"S">>)}}

\* the payloads each decoder is called on
DecoderInputs(entity) ==
    CASE entity = "Application" -> ApplicationPayloads
      [] entity = "Info" -> InfoPayloads \cup {InfoTvOn}
      [] entity = "Channel" -> ChannelPayloads
      [] entity = "MediaState" ->
            MediaPayloads \cup {PlayerClose, PlayerNoState, PlayerStartup, PlayerBad}

InitDecode ==
    /\ heap = <<>>
    /\ device = 0
    /\ calls = [c \in Callers |-> IdleFrame]
    /\ wire = {}
    /\ merge = NoMerge
    /\ \E entity \in Entities : \E data \in DecoderInputs(entity) :
          probe = [task |-> entity, res |-> data, out |-> Ok(None), done |-> FALSE]
    /\ now = 0
    /\ roku = NoClient
    /\ http = NoRequest
    /\ control = NoCommand

\* <Entity>.from_dict(data)
Decode ==
    /\ ~probe.done
    /\ probe' = [probe EXCEPT !.out = Decoder(probe.task, probe.res), !.done = TRUE]
    /\ UNCHANGED <<heap, device, calls, wire, merge, now, roku, http, control>>

NextDecode == Decode

SpecDecode == InitDecode /\ [][NextDecode]_vars

-----------------------------------------------------------------------------
(* Device.update_from_dict called at different times *)

\* the clock is followed up to this time
MaxClock == 3

\* payloads that touch the state and the active app
ClockPayloads ==
    {p \in Payloads : DOMAIN p.v \subseteq {"available", "standby", "app"}}

\* a Device constructed at import time, no call made on it yet
InitClock ==
    /\ \E first \in FirstPayloads :
          \E r \in {DeviceInit(first)} : r.exc = "ok" /\ heap = <<r.dev>>
    /\ device = 1
    /\ calls = [c \in Callers |-> IdleFrame]
    /\ wire = {}
    /\ merge = [data |-> EmptyDict, update_state |-> FALSE, exc |-> "none",
                before |-> ClassDevice, at |-> 0]
    /\ probe = NoProbe
    /\ now = 0
    /\ roku = NoClient
    /\ http = NoRequest
    /\ control = NoCommand

\* time passes
Tick ==
    /\ now < MaxClock
    /\ now' = now + 1
    /\ UNCHANGED <<heap, device, calls, wire, merge, probe, roku, http, control>>

\* device.update_from_dict(data, update_state), called at time `now`
TimedUpdate ==
    /\ \E data \in ClockPayloads, update_state \in BOOLEAN :
          \E r \in {UpdateFromDict(heap[device], data, update_state)} :
              /\ heap' = [heap EXCEPT ![device] = r.dev]
              /\ merge' = [data |-> data, update_state |-> update_state,
                           exc |-> r.exc, before |-> heap[device], at |-> now]
    /\ UNCHANGED <<device, calls, wire, probe, now, roku, http, control>>

NextClock == Tick \/ TimedUpdate

SpecClock == InitClock /\ [][NextClock]_vars

-----------------------------------------------------------------------------
(* Roku._request called on a client, one call at a time *)

\* an IP literal, a hostname, and a dotted name that is no IP address
Hosts == {<<"1", "0", ".", "0", ".", "0", ".", "7">>, <<"t", "v", ".", "l", "a", "n">>, <<"1", "0", ".", "0", ".", "0">>}

\* what the resolver gives: one address, several, a host that is no IP
\* address, or an error
ResolverAnswers ==
    {Ok(List(<<Str(<<"1", "0", ".", "0", ".", "0", ".", "7">>)>>)),
     Ok(List(<<Str(<<"1", "0", ".", "0", ".", "0", ".", "8">>), Str(<<"1", "0", ".", "0", ".", "0", ".", "9">>)>>)),
     Ok(List(<<Str(<<"t", "v", ".", "l", "a", "n">>)>>)),
     Raise("gaierror"), Raise("OSError")}

\* the Content-Type headers of responses; none is read as ""
ContentTypes ==
    {<<"a", "p", "p", "l", "i", "c", "a", "t", "i", "o", "n", "/", "x", "m", "l">>,
     <<"t", "e", "x", "t", "/", "x", "m", "l", ";", " ", "c", "h", "a", "r", "s", "e", "t", "=", "u", "t", "f", "-", "8">>,
     <<"t", "e", "x", "t", "/", "p", "l", "a", "i", "n">>,
     <<>>}

Statuses == {200, 202, 404, 500}

\* what session.request gives: a response, or an error
Exchanges ==
    {Raise("TimeoutError"), Raise("ClientError"), Raise("gaierror")}
    \cup {Ok([status |-> status, content_type |-> ct]) :
            status \in Statuses, ct \in ContentTypes}

\* what reading the body gives: a well-formed document, with and without
\* text, a document cut short, text, nothing, or an error of the connection
Bodies ==
    {Ok(Str(<<"<", "a", "p", "p", "s", "/", ">">>)),
     Ok(Str(<<"<", "a", ">", "x", "<", "/", "a", ">">>)),
     Ok(Str(<<"<", "a", ">", "x">>)),
     Ok(Str(<<"o", "k">>)),
     Ok(Str(<<>>)),
     Raise("ClientPayloadError")}

\* a client just constructed, with a session of the caller's or without
InitRequest ==
    /\ heap = <<>>
    /\ device = 0
    /\ calls = [c \in Callers |-> IdleFrame]
    /\ wire = {}
    /\ merge = NoMerge
    /\ probe = NoProbe
    /\ now = 0
    /\ \E host \in Hosts, session \in {None, ClientSession("caller")} :
          roku = NewClient(host, session)
    /\ http = NoRequest
    /\ control = NoCommand

\* await self._request(uri), up to its first await: the resolver if the
\* host is to be resolved, else session.request
Request ==
    /\ http.pc \in {"idle", "done"}
    /\ ~http.ended
    /\ \E call \in {[NoRequest EXCEPT !.before = roku, !.started = now,
                                      !.closed = http.closed]} :
          IF roku.dns_lookup /\ NeedsResolve(roku, now)
          THEN /\ roku' = WithInterval(roku)
               /\ http' = [call EXCEPT !.pc = "resolving", !.resolver = TRUE]
          ELSE /\ roku' = WithSession(IF roku.dns_lookup THEN WithInterval(roku) ELSE roku)
               /\ http' = [call EXCEPT !.pc = "sending", !.sent = TRUE]
    /\ UNCHANGED <<heap, device, calls, wire, merge, probe, now, control>>

\* the resolver returns or raises
Resolution ==
    /\ http.pc = "resolving"
    /\ \E answer \in ResolverAnswers :
          \E res \in {ResolveHostname(answer)} :
              IF res.exc # "ok"
              THEN /\ roku' = Resolved(roku, res, now)
                   /\ http' = [http EXCEPT !.pc = "done", !.out = res,
                                           !.answer = answer, !.answered_at = now]
              ELSE /\ roku' = WithSession(Resolved(roku, res, now))
                   /\ http' = [http EXCEPT !.pc = "sending", !.sent = TRUE,
                                           !.answer = answer, !.answered_at = now]
    /\ UNCHANGED <<heap, device, calls, wire, merge, probe, now, control>>

\* session.request returns a response or raises
Exchange ==
    /\ http.pc = "sending"
    /\ \E outcome \in Exchanges :
          \E r \in {Exchanged(outcome)} :
              IF r.exc # "ok"
              THEN http' = [http EXCEPT !.pc = "done", !.out = r, !.exchange = outcome]
              ELSE http' = [http EXCEPT !.pc = "reading", !.response = r.v,
                                        !.exchange = outcome]
    /\ UNCHANGED <<heap, device, calls, wire, merge, probe, now, roku, control>>

\* response.read() or response.text() returns or raises
Body ==
    /\ http.pc = "reading"
    /\ \E body \in Bodies :
          http' = [http EXCEPT !.pc = "done", !.body = body,
                               !.out = Answered(http.response, body)]
    /\ UNCHANGED <<heap, device, calls, wire, merge, probe, now, roku, control>>

\* await roku.close_session(), between requests; the client is not used
\* after it
CloseSession ==
    /\ http.pc \in {"idle", "done"}
    /\ ~http.ended
    /\ http' = [http EXCEPT !.closed = @ \cup ClosedBy(roku), !.ended = TRUE]
    /\ UNCHANGED <<heap, device, calls, wire, merge, probe, now, roku, control>>

NextRequest == Request \/ Resolution \/ Exchange \/ Body \/ CloseSession \/ Tick

SpecRequest == InitRequest /\ [][NextRequest]_vars

-----------------------------------------------------------------------------
(* a command called on a client: remote, literal, tune or launch *)

MaxText == 3

\* keys a caller may pass to remote()
Keys ==
    {<<"h", "o", "m", "e">>, <<"H", "o", "m", "e">>, <<"H", "O", "M", "E">>,
     <<"s", "e", "a", "r", "c", "h">>, <<"S", "e", "a", "r", "c", "h">>,
     <<"v", "o", "l", "u", "m", "e", "_", "u", "p">>,
     <<"V", "o", "l", "u", "m", "e", "_", "U", "p">>,
     <<"I", "n", "p", "u", "t", "_", "H", "D", "M", "I", "1">>,
     <<"s", "u", "p", "e", "r">>, <<"H", "o", "m", "e", " ">>, <<>>,
     <<"L", "i", "t", "_", "t", "h", "e">>, <<"L", "i", "t", "_", "@">>,
     <<"L", "i", "t", "_">>, <<"l", "i", "t", "_", "t">>}

TextChars == {"t", "h", "e", " ", "@"}

\* texts a caller may pass to literal()
Texts == UNION {[1..n -> TextChars] : n \in 0..MaxText}

\* channels a caller may pass to tune()
Channels == {<<"1", "3", ".", "4">>, <<"2">>, <<"5", "-", "1">>, <<>>}

\* application ids and parameters a caller may pass to launch()
LaunchArgs ==
    {<<<<"1", "2">>, <<>>>>,
     <<<<"1", "2">>, <<<<<<"c", "o", "n", "t", "e", "n", "t", "I", "D">>, <<"4", " ", "2">>>>>>>>,
     <<<<"t", "v", "i", "n", "p", "u", "t", ".", "d", "t", "v">>,
       <<<<<<"c", "h">>, <<"2">>>>, <<<<"l", "c", "n">>, <<"2">>>>>>>>}

\* what an awaited Roku._request gives a command
RequestOutcomes ==
    {Ok(None), Raise("RokuError"), Raise("RokuConnectionError"),
     Raise("RokuConnectionTimeoutError")}

InitCommand ==
    /\ heap = <<>>
    /\ device = 0
    /\ calls = [c \in Callers |-> IdleFrame]
    /\ wire = {}
    /\ merge = NoMerge
    /\ probe = NoProbe
    /\ now = 0
    /\ roku = NoClient
    /\ http = NoRequest
    /\ control = NoCommand

\* await roku.remote(key)
Remote ==
    /\ control.pc = "idle"
    /\ \E key \in Keys : control' = Called("remote", key)
    /\ UNCHANGED <<heap, device, calls, wire, merge, probe, now, roku, http>>

\* await roku.literal(text)
Literal ==
    /\ control.pc = "idle"
    /\ \E text \in Texts : control' = Called("literal", text)
    /\ UNCHANGED <<heap, device, calls, wire, merge, probe, now, roku, http>>

\* await roku.tune(channel)
Tune ==
    /\ control.pc = "idle"
    /\ \E channel \in Channels : control' = Called("tune", channel)
    /\ UNCHANGED <<heap, device, calls, wire, merge, probe, now, roku, http>>

\* await roku.launch(app_id, params)
Launch ==
    /\ control.pc = "idle"
    /\ \E arg \in LaunchArgs : control' = Called("launch", arg)
    /\ UNCHANGED <<heap, device, calls, wire, merge, probe, now, roku, http>>

\* the request the command awaits returns or raises
Respond ==
    /\ control.pc = "awaiting"
    /\ \E outcome \in RequestOutcomes : control' = Awaited(control, outcome)
    /\ UNCHANGED <<heap, device, calls, wire, merge, probe, now, roku, http>>

NextCommand == Remote \/ Literal \/ Tune \/ Launch \/ Respond

SpecCommand == InitCommand /\ [][NextCommand]_vars

-----------------------------------------------------------------------------
(* Device.update_from_dict: what a direct call leaves and what it replaces *)

\* the direct call has been made (it returned or raised)
Merged == merge.exc \notin {"none", "pending"}

\* the Device the direct call was made on, as it is now
Dev == heap[device]

\* C1: update_from_dict leaves every field whose key is absent from the
\* payload as it was before the call, whatever other keys the payload
\* carries and whether the call returns or raises.
C1_AbsentKeyKeepsField ==
    Merged =>
        \A k \in {"apps", "channels", "app", "channel", "media", "info"} :
            ~HasKey(merge.data, k) => Dev[k] = merge.before[k]

\* a Device with a populated apps list took a payload without `apps` whose
\* other keys changed the channel list and cleared the active app
C1_Witness ==
    /\ merge.exc = "ok"
    /\ ~HasKey(merge.data, "apps")
    /\ merge.before.apps # <<>>
    /\ HasKey(merge.data, "channels") /\ Dev.channels # merge.before.channels
    /\ HasKey(merge.data, "app") /\ Dev.app # merge.before.app

\* what the call must have made of one optional field
ThreeCases(k, decoded) ==
    IF HasKey(merge.data, k) /\ Truthy(merge.data.v[k]) THEN Dev[k] = decoded.v
    ELSE IF HasKey(merge.data, k) THEN Dev[k] = None
    ELSE Dev[k] = merge.before[k]

\* C2: after a call that returned, each of app, channel and media is the
\* freshly decoded entity when its key is present and truthy, None when its
\* key is present and falsy, and its prior value when its key is absent.
C2_TruthyFalsyAbsent ==
    merge.exc = "ok" =>
        /\ ThreeCases("app", ApplicationFromDict(Get(merge.data, "app", None)))
        /\ ThreeCases("channel", ChannelFromDict(Get(merge.data, "channel", None)))
        /\ ThreeCases("media", MediaStateFromDict(Get(merge.data, "media", None)))

\* one call cleared a populated app through a falsy value and kept a
\* populated media through an absent key
C2_Witness ==
    /\ merge.exc = "ok"
    /\ HasKey(merge.data, "app") /\ ~Truthy(merge.data.v["app"])
    /\ merge.before.app # None /\ Dev.app = None
    /\ ~HasKey(merge.data, "media")
    /\ merge.before.media # None /\ Dev.media = merge.before.media
    /\ HasKey(merge.data, "channel") /\ Truthy(merge.data.v["channel"])
    /\ Dev.channel # merge.before.channel

-----------------------------------------------------------------------------
(* Roku.update: which requests a call makes, and what it does to the snapshot *)

\* the path was requested in the call of frame f
Requested(f, path) == \E i \in 1..Len(f.requests) : f.requests[i] = path

\* what the call of frame f got from /query/device-info (None before that)
InfoOf(f) == Get(f.updates, "info", None)

\* the device-info response of the call says power-mode "PowerOn"
PoweredOn(f) ==
    IsDict(InfoOf(f)) /\ Get(InfoOf(f), "power-mode", None) = Str(S_PowerOn)

\* the device-info response of the call says is-tv "true"
IsTv(f) == IsDict(InfoOf(f)) /\ Get(InfoOf(f), "is-tv", None) = Str(S_true)

\* the call got past device-info and active-app and created its futures
Scheduled(f) ==
    \/ f.pc \in {"gather", "returned"}
    \/ f.pc = "raised" /\ f.stage \in {"gather", "merge"}

\* the call is over
Over(f) == f.pc \in {"returned", "raised"}

\* roku.device is what it was when the call of frame f began
SnapshotAsBefore(f) ==
    IF f.first THEN device = 0
    ELSE device # 0 /\ heap[device] = f.before

\* the id attribute of the active app the call saw; None if there is none
ActiveAppId(f) ==
    LET app == Get(f.updates, "app", None)
    IN  IF IsDict(app) /\ HasKey(app, "app") /\ IsDict(app.v["app"])
        THEN Get(app.v["app"], "@id", None)
        ELSE None

StartsWith(s, p) == Len(s) >= Len(p) /\ SubSeq(s, 1, Len(p)) = p

\* C3: when an endpoint accessor fails, update() raises that exception and
\* merges nothing: roku.device is the same object with the same fields as
\* before the call, and None if it was None.
C3_AccessorFailureMergesNothing ==
    \A c \in Serial :
        calls[c].failed # "" =>
            /\ calls[c].pc = "raised"
            /\ calls[c].stage \in {"info", "app", "gather"}
            /\ SnapshotAsBefore(calls[c])

\* on a client with a populated snapshot, the apps fetch of a gather failed
\* after the media fetch of the same gather had succeeded
C3_Witness ==
    \E c \in Serial :
        /\ calls[c].failed = "apps"
        /\ "media" \in DOMAIN calls[c].results
        /\ device # 0 /\ heap[device].app # None

\* C4: unless the device-info response of the call says power-mode
\* "PowerOn", the call requests none of /query/active-app,
\* /query/media-player and /query/tv-active-channel.
C4_StandbyFetchesNoAppState ==
    \A c \in Serial :
        (calls[c].pc # "idle" /\ ~PoweredOn(calls[c])) =>
            \A path \in {"/query/active-app", "/query/media-player",
                         "/query/tv-active-channel"} :
                ~Requested(calls[c], path)

\* a call that found the device in standby went on to fetch the apps and
\* returned
C4_Witness ==
    \E c \in Serial :
        /\ calls[c].pc = "returned"
        /\ IsDict(InfoOf(calls[c])) /\ ~PoweredOn(calls[c])
        /\ Requested(calls[c], "/query/apps")

\* C5: once a call on a powered-on device has created its futures,
\* /query/media-player was requested iff the active app's id is a non-empty
\* string not starting with "tvinput", and /query/tv-active-channel iff the
\* id is exactly "tvinput.dtv".
C5_FollowUpsFromAppId ==
    \A c \in Serial :
        (Scheduled(calls[c]) /\ PoweredOn(calls[c])) =>
            LET id == ActiveAppId(calls[c])
            IN  /\ Requested(calls[c], "/query/media-player")
                       <=> (id.ty = "str" /\ id.v # <<>> /\ ~StartsWith(id.v, S_tvinput))
                /\ Requested(calls[c], "/query/tv-active-channel")
                       <=> (id = Str(S_tvinput_dtv))

\* the tuner is active: the channel was fetched and the media state was not
C5_Witness ==
    \E c \in Serial :
        /\ calls[c].pc = "returned"
        /\ ActiveAppId(calls[c]) = Str(S_tvinput_dtv)
        /\ Requested(calls[c], "/query/tv-active-channel")
        /\ ~Requested(calls[c], "/query/media-player")
        /\ heap[device].channel # None

\* C6: a call on a client without a snapshot fetches the apps list once it
\* creates its futures, whatever full_update it was given; a call on a client
\* with a snapshot that was given full_update=false requests neither
\* /query/apps nor /query/tv-channels and leaves Device.apps and
\* Device.channels as they were.
C6_FirstCallIsFull ==
    \A c \in Serial :
        /\ (calls[c].first /\ Scheduled(calls[c])) => Requested(calls[c], "/query/apps")
        /\ (calls[c].pc # "idle" /\ ~calls[c].first /\ ~calls[c].arg) =>
              /\ ~Requested(calls[c], "/query/apps")
              /\ ~Requested(calls[c], "/query/tv-channels")
              /\ heap[device].apps = calls[c].before.apps
              /\ heap[device].channels = calls[c].before.channels

\* a later update(False) returned: it merged a new active app and kept the
\* populated lists
C6_Witness ==
    \E c \in Serial :
        /\ calls[c].pc = "returned" /\ ~calls[c].first /\ ~calls[c].arg
        /\ calls[c].before.apps # <<>> /\ calls[c].before.channels # <<>>
        /\ heap[device].app # calls[c].before.app

\* C7: device-info is the first request of every call and is answered before
\* anything else is requested; active-app is answered before any of
\* media-player, tv-active-channel, apps and tv-channels is requested; a call
\* whose device-info fetch failed requested nothing else.
C7_DeviceInfoFirst ==
    \A c \in Serial :
        /\ calls[c].pc # "idle" => calls[c].requests[1] = "/query/device-info"
        /\ Req(c, "info") \in wire => calls[c].requests = <<"/query/device-info">>
        /\ Req(c, "app") \in wire =>
              calls[c].requests = <<"/query/device-info", "/query/active-app">>
        /\ calls[c].failed = "info" => calls[c].requests = <<"/query/device-info">>

\* three gathered requests are on the wire, after device-info and active-app
C7_Witness ==
    \E c \in Serial :
        /\ calls[c].pc = "gather"
        /\ Len(calls[c].requests) = 5
        /\ {Req(c, "media"), Req(c, "apps"), Req(c, "channels")} \subseteq wire

\* C8 as stated: in a full update that is over, if device-info succeeded then
\* /query/apps was requested, and /query/tv-channels was requested iff
\* is-tv is "true".
C8_AppsWheneverInfoSucceeded ==
    \A c \in Serial :
        (calls[c].full_update /\ Over(calls[c]) /\ IsDict(InfoOf(calls[c]))) =>
            /\ Requested(calls[c], "/query/apps")
            /\ Requested(calls[c], "/query/tv-channels") <=> IsTv(calls[c])

\* C8 amended: a full update that got past device-info and active-app
\* requested /query/apps, in standby too, and requested /query/tv-channels
\* iff is-tv is "true"; no call requests /query/tv-channels unless is-tv is
\* "true".
C8_FullUpdateFetchesLists ==
    \A c \in Serial :
        /\ (calls[c].full_update /\ Scheduled(calls[c])) =>
              /\ Requested(calls[c], "/query/apps")
              /\ Requested(calls[c], "/query/tv-channels") <=> IsTv(calls[c])
        /\ (calls[c].pc # "idle" /\ ~IsTv(calls[c])) =>
              ~Requested(calls[c], "/query/tv-channels")

\* a full update of a TV in standby fetched the apps and the channels
C8_Witness ==
    \E c \in Serial :
        /\ calls[c].pc = "returned" /\ calls[c].full_update
        /\ IsTv(calls[c]) /\ ~PoweredOn(calls[c])
        /\ Requested(calls[c], "/query/apps")
        /\ Requested(calls[c], "/query/tv-channels")

\* C9: after an update() that returned, state.standby says whether the
\* power-mode of that call's device-info response differs from "PowerOn",
\* and state.available is true; every snapshot there is, after failed
\* updates too, has state.available true.
C9_StandbyFromPowerMode ==
    /\ \A c \in Serial :
          calls[c].pc = "returned" =>
              /\ heap[device].state.standby = Bool(~PoweredOn(calls[c]))
              /\ heap[device].state.available = Bool(TRUE)
    /\ device # 0 => heap[device].state.available = Bool(TRUE)

\* an update found a device in standby that was powered on the call before
C9_Witness ==
    \E c \in Serial :
        /\ calls[c].pc = "returned" /\ ~calls[c].first
        /\ ~PoweredOn(calls[c])
        /\ calls[c].before.state.standby = Bool(FALSE)
        /\ heap[device].state.standby = Bool(TRUE)

\* C10: an update() that returned having found the device in standby leaves
\* app, channel and media None, and, unless it was a full update, apps and
\* channels as they were.
C10_StandbyClearsActive ==
    \A c \in Serial :
        (calls[c].pc = "returned" /\ ~PoweredOn(calls[c])) =>
            /\ heap[device].app = None
            /\ heap[device].channel = None
            /\ heap[device].media = None
            /\ ~calls[c].full_update =>
                  /\ heap[device].apps = calls[c].before.apps
                  /\ heap[device].channels = calls[c].before.channels

\* the snapshot had an app playing media before the device went to standby
C10_Witness ==
    \E c \in Serial :
        /\ calls[c].pc = "returned" /\ ~PoweredOn(calls[c]) /\ ~calls[c].full_update
        /\ calls[c].before.app # None /\ calls[c].before.media # None
        /\ calls[c].before.apps # <<>>
        /\ heap[device].media = None

-----------------------------------------------------------------------------
(* Device(data): what the constructor insists on *)

\* C11: Device(data) raises RokuError and yields no object when data lacks
\* any of info, available, standby; with the three keys, an info value that
\* is falsy or decodes, and none of apps, channels, app, channel, media, it
\* returns a Device with apps and channels empty and app, channel, media None.
C11_ConstructorNeedsThreeKeys ==
    Merged =>
        /\ (\E k \in RequiredKeys : ~HasKey(merge.data, k)) =>
              merge.exc = "RokuError" /\ heap = <<>>
        /\ ( /\ DOMAIN merge.data.v = RequiredKeys
             /\ (Truthy(merge.data.v["info"]) =>
                    InfoFromDict(merge.data.v["info"]).exc = "ok") ) =>
              /\ merge.exc = "ok" /\ Len(heap) = 1
              /\ heap[1].apps = <<>> /\ heap[1].channels = <<>>
              /\ heap[1].app = None /\ heap[1].channel = None /\ heap[1].media = None

\* a Device was constructed from exactly the three keys, with its Info decoded
C11_Witness ==
    /\ merge.exc = "ok"
    /\ DOMAIN merge.data.v = RequiredKeys
    /\ Len(heap) = 1 /\ heap[1].info # Unset /\ heap[1].apps = <<>>

-----------------------------------------------------------------------------
(* Roku.update: the one Device of a client *)

\* C12: with update() calls made one after the other, at most one Device is
\* ever constructed, roku.device is None exactly as long as none has been,
\* every update() that returns returns the object roku.device holds, and
\* roku.device, once an object, stays that object.
C12_OneDevice ==
    /\ [](/\ Len(heap) <= 1
          /\ device = Len(heap)
          /\ \A c \in Serial : calls[c].pc = "returned" =>
                calls[c].ret = device /\ device # 0)
    /\ [][device # 0 => device' = device]_vars

\* a later update() returned the object the first one constructed, changed
C12_Witness ==
    \E c \in Serial :
        /\ calls[c].pc = "returned" /\ ~calls[c].first
        /\ calls[c].ret = 1 /\ Len(heap) = 1
        /\ heap[1] # calls[c].before

-----------------------------------------------------------------------------
(* Roku.update: the gathered fetches *)

\* what the accessor of `task` returned in the call of frame f
AnswerOf(f, task) ==
    (CHOOSE i \in 1..Len(f.answered) : f.answered[i].task = task)

\* the call of frame f got as far as the merge
ReachedMerge(f) == f.pc = "returned" \/ (f.pc = "raised" /\ f.stage = "merge")

\* C13: whatever order the gathered fetches complete in, the payload that
\* is merged holds under each task's name what that task's accessor
\* returned, and the snapshot a returned call leaves is the merge of that
\* payload into the snapshot the call found.
C13_ResultsKeyedByTask ==
    \A c \in Serial :
        ReachedMerge(calls[c]) =>
            /\ \A i \in 1..Len(calls[c].tasks) :
                  calls[c].updates.v[calls[c].tasks[i]]
                      = calls[c].answered[AnswerOf(calls[c], calls[c].tasks[i])].r.v
            /\ calls[c].pc = "returned" =>
                  heap[device] = UpdateFromDict(calls[c].before, calls[c].updates, TRUE).dev

\* the apps fetch completed before the media fetch that was scheduled ahead
\* of it, and the call returned
C13_Witness ==
    \E c \in Serial :
        /\ calls[c].pc = "returned"
        /\ calls[c].tasks = <<"media", "apps">>
        /\ calls[c].answered[3].task = "apps"
        /\ calls[c].answered[4].task = "media"
        /\ heap[device].apps # <<>> /\ heap[device].media # None

-----------------------------------------------------------------------------
(* the endpoint accessors: what they raise and what they return *)

\* the transport result of the direct call lacks the shape its accessor
\* reads: it is no mapping, has no root element of the endpoint, or (apps,
\* tv-active-channel) its root element is no mapping with the child read
LacksShape ==
    LET res == probe.res.v
        root == Root(probe.task)
        child == IF probe.task = "apps" THEN "app" ELSE "channel"
    IN  \/ ~IsDict(res)
        \/ ~HasKey(res, root)
        \/ /\ probe.task \in {"apps", "channel"}
           /\ ~(IsDict(res.v[root]) /\ HasKey(res.v[root], child))

\* C14 as stated: an accessor given a transport result raises nothing but
\* RokuError, and raises RokuError when the result lacks the expected shape.
C14_MalformedRaisesRokuError ==
    (probe.done /\ probe.res.exc = "ok") =>
        /\ probe.out.exc \in {"ok", "RokuError"}
        /\ LacksShape => probe.out.exc = "RokuError"

-----------------------------------------------------------------------------
(* Device.update_from_dict: the two lists and info *)

\* the entries update_from_dict decodes a list value into
DecodedList(k, q) == IF k = "apps" THEN DecodeApps(q) ELSE DecodeChannels(q)

\* C16: for apps and channels, a call that returned with the key holding a
\* non-empty list left exactly the decoded entries of that list, as many and
\* in that order; a call with the key absent or holding an empty list (or
\* None) left the field as it was.
C16_ListsReplacedWholesale ==
    \A k \in {"apps", "channels"} :
        /\ (merge.exc = "ok" /\ HasKey(merge.data, k)
              /\ merge.data.v[k].ty = "list" /\ merge.data.v[k].v # <<>>) =>
              /\ Dev[k] = DecodedList(k, merge.data.v[k].v).v
              /\ Len(Dev[k]) = Len(merge.data.v[k].v)
        /\ (Merged /\ (~HasKey(merge.data, k) \/ ~Truthy(merge.data.v[k]))) =>
              Dev[k] = merge.before[k]

\* one call replaced two channels by one and, given an empty apps list, kept
\* the two apps
C16_Witness ==
    /\ merge.exc = "ok"
    /\ HasKey(merge.data, "channels") /\ Len(merge.before.channels) = 2
    /\ Len(Dev.channels) = 1
    /\ HasKey(merge.data, "apps") /\ merge.data.v["apps"] = List(<<>>)
    /\ Len(Dev.apps) = 2

\* C17 as stated: a returned update() whose payload holds an empty list
\* under apps or channels leaves that field of the snapshot empty (so a full
\* update of a TV that now reports no channel leaves Device.channels empty).
C17_EmptyListClears ==
    \A c \in Serial :
        calls[c].pc = "returned" =>
            \A k \in {"apps", "channels"} :
                (HasKey(calls[c].updates, k) /\ calls[c].updates.v[k] = List(<<>>)) =>
                    heap[device][k] = <<>>

\* C18: a call that returned with info present and truthy left the Info
\* decoded from it; a call with info absent or falsy (None, empty mapping)
\* left the Info it found, and did not clear it.
C18_InfoOnlyReplacedWhenTruthy ==
    /\ (merge.exc = "ok" /\ HasKey(merge.data, "info") /\ Truthy(merge.data.v["info"])) =>
          Dev.info = InfoFromDict(merge.data.v["info"]).v
    /\ (Merged /\ (~HasKey(merge.data, "info") \/ ~Truthy(merge.data.v["info"]))) =>
          Dev.info = merge.before.info

\* a payload with a falsy info and a falsy app cleared the app and kept the
\* Info
C18_Witness ==
    /\ merge.exc = "ok"
    /\ HasKey(merge.data, "info") /\ ~Truthy(merge.data.v["info"])
    /\ merge.before.info # Unset /\ Dev.info = merge.before.info
    /\ HasKey(merge.data, "app") /\ merge.before.app # None /\ Dev.app = None

-----------------------------------------------------------------------------
(* Roku.update: no request is repeated *)

\* how often the call of frame f requested the path
Count(f, path) == Cardinality({i \in 1..Len(f.requests) : f.requests[i] = path})

\* C19: a call requests /query/device-info exactly once and every other
\* endpoint at most once; a call one of whose requests failed has requested
\* that endpoint once, and is over.
C19_NoRetry ==
    \A c \in Serial :
        /\ calls[c].pc # "idle" =>
              /\ Count(calls[c], Endpoint("info")) = 1
              /\ \A task \in Tasks : Count(calls[c], Endpoint(task)) <= 1
        /\ calls[c].failed # "" =>
              /\ Count(calls[c], Endpoint(calls[c].failed)) = 1
              /\ Over(calls[c])

\* the media fetch of a gather failed, after four requests
C19_Witness ==
    \E c \in Serial :
        /\ calls[c].failed = "media"
        /\ Len(calls[c].requests) >= 4
        /\ Count(calls[c], "/query/media-player") = 1

-----------------------------------------------------------------------------
(* State.at *)

\* C20 as stated: a call with update_state=true leaves a State whose `at` is
\* the time of that call; a call with update_state=false leaves the State,
\* `at` included, as it was.
C20_StateStampedAtCall ==
    Merged =>
        IF merge.update_state THEN Dev.state.at = merge.at
        ELSE Dev.state = merge.before.state

-----------------------------------------------------------------------------
(* overlapping update() calls *)

\* both calls found no snapshot on entry and both returned
BothSawNone ==
    \A c \in Callers : calls[c].first /\ calls[c].pc = "returned"

\* C21 as stated: two calls that both observed no snapshot each construct a
\* Device, return different objects, and roku.device is the one constructed
\* last.
C21_OverlapConstructsTwo ==
    BothSawNone =>
        /\ calls["a"].ret # calls["b"].ret
        /\ Len(heap) = 2 /\ device = 2

\* C21 amended: however two update() calls overlap, at most one Device is
\* ever constructed; two calls that both found no snapshot on entry both run
\* as full updates and both return the one object roku.device holds, the
\* later one having merged into the Device the earlier one constructed.
C21_OverlapSharesOneDevice ==
    /\ Len(heap) <= 1 /\ device = Len(heap)
    /\ \A c \in Callers : calls[c].pc = "returned" => calls[c].ret = 1 /\ device = 1
    /\ \A c \in Callers : (calls[c].pc # "idle" /\ calls[c].first) => calls[c].full_update
    /\ BothSawNone => calls["a"].ret = calls["b"].ret

\* both calls were given full_update=false, found no snapshot and returned,
\* and the snapshot carries what the two saw: the apps, and an active tuner
C21_Witness ==
    /\ BothSawNone
    /\ \A c \in Callers : ~calls[c].arg
    /\ ActiveAppId(calls["a"]) # ActiveAppId(calls["b"])
    /\ heap[device].apps # <<>>

-----------------------------------------------------------------------------
(* the entity decoders *)

\* the @state of the media payload of the direct call is "play" or "pause"
Playing(media) ==
    Get(media, "@state", None) \in {Str(S_play), Str(S_pause)}

\* C22: a merge whose `media` payload is a non-empty mapping leaves
\* Device.media None whenever the payload's @state is anything other than
\* exactly "play" or "pause", absent included, whatever else the payload
\* carries, and such a payload never makes the merge raise; with "play" or
\* "pause" a merge that returns leaves a MediaState whose paused flag says
\* whether the state is "pause". A payload with state "close" leaves None.
C22_MediaStateOnlyPlayPause ==
    (Merged /\ HasKey(merge.data, "media") /\ Truthy(merge.data.v["media"])) =>
        LET media == merge.data.v["media"]
        IN  /\ (merge.exc = "ok" /\ ~Playing(media)) => Dev.media = None
            /\ (merge.exc = "ok" /\ Playing(media)) =>
                  /\ Dev.media.ty = "MediaState"
                  /\ Dev.media.paused = (media.v["@state"] = Str(S_pause))
            /\ (DOMAIN merge.data.v = {"media"} /\ ~Playing(media)) => merge.exc = "ok"
            /\ media = PlayerClose => (merge.exc = "ok" => Dev.media = None)

\* a Device that was playing took a media payload with state "close" and no
\* other key: its media is None now
C22_Witness ==
    /\ merge.exc = "ok"
    /\ DOMAIN merge.data.v = {"media"}
    /\ merge.data.v["media"] = PlayerClose
    /\ merge.before.media # None
    /\ Dev.media = None

\* the direct call of the decoder of `entity` has been made
Decoded(entity) == probe.done /\ probe.task = entity

\* s is "<n> ms" or "<n>ms": the number of digits of n, 0 if s is neither
MsDigits(s) ==
    LET lens == {i \in 1..Len(s) :
                    /\ \A j \in 1..i : s[j] \in Digits
                    /\ SubSeq(s, i + 1, Len(s)) \in {<<" ", "m", "s">>, <<"m", "s">>}}
    IN  IF lens = {} THEN 0 ELSE CHOOSE i \in lens : TRUE

\* floor(n / 1000) for the n of "<n> ms", in decimal digits (none for 0):
\* n without its last three digits
WholeSeconds(s) ==
    IF MsDigits(s) <= 3 THEN <<>> ELSE Significant(SubSeq(s, 1, MsDigits(s) - 3))

\* the decimal digits of a non-negative int (none for 0)
RECURSIVE ToDigits(_)
ToDigits(n) ==
    IF n = 0 THEN <<>>
    ELSE ToDigits(n \div 10) \o <<CHOOSE c \in Digits : DigitVal(c) = n % 10>>

DecimalOf(x) == IF x.ty = "int" THEN ToDigits(x.v) ELSE x.digits

\* the decoded field is the whole seconds of the payload's millisecond string
\* and 0 when the payload has none
FloorsField(field) ==
    IF HasKey(probe.res, field)
    THEN MsDigits(probe.res.v[field].v) > 0 =>
            /\ probe.out.v[field].ty \in {"int", "bigint"}
            /\ DecimalOf(probe.out.v[field]) = WholeSeconds(probe.res.v[field].v)
    ELSE probe.out.v[field] = PyInt(0)

\* C23 as stated: for every millisecond string "<n> ms" or "<n>ms" the
\* decoded duration and position are floor(n / 1000), never rounded up, and
\* a missing duration or position gives 0.
C23_MillisecondsFloored ==
    (Decoded("MediaState") /\ probe.res \in MediaPayloads) =>
        /\ probe.out.exc = "ok"
        /\ FloorsField("duration")
        /\ FloorsField("position")

\* C24 as stated: Channel.from_dict does not raise whatever the
\* signal-strength is; a string that parses as an integer gives that integer,
\* and an absent value or any value that does not parse (text that is no
\* number, an empty element, a value that is no string) gives an absent
\* strength.
C24_StrengthNeverRaises ==
    Decoded("Channel") =>
        LET raw == Get(probe.res, "signal-strength", None)
        IN  /\ probe.out.exc = "ok"
            /\ probe.out.v.signal_strength =
                  (IF raw.ty = "str" /\ IntOfStr(raw.v).exc = "ok"
                   THEN IntOfStr(raw.v).v ELSE None)

\* the value under k is a str with something other than white space in it
Named(data, k) == HasKey(data, k) /\ NonBlank(data.v[k])

\* the name the fallback chain of C25 gives: the first of user device name,
\* friendly name, default name, "<brand> <model>", brand and the literal that
\* is not blank, trimmed (the brand is "Roku" when the payload has none)
ChainName(data) ==
    LET brand == Get(data, "vendor-name", Str(S_Roku))
    IN  IF Named(data, "user-device-name") THEN Strip(data.v["user-device-name"].v)
        ELSE IF Named(data, "friendly-device-name")
             THEN Strip(data.v["friendly-device-name"].v)
        ELSE IF Named(data, "default-device-name")
             THEN Strip(data.v["default-device-name"].v)
        ELSE IF NonBlank(brand) /\ Named(data, "model-name")
             THEN Strip(brand.v) \o <<" ">> \o Strip(data.v["model-name"].v)
        ELSE IF NonBlank(brand) THEN Strip(brand.v)
        ELSE S_UnknownName

\* C25 as stated: Info.from_dict returns an Info whose name is the first
\* non-blank of the fallback chain, trimmed; the name is never empty and has
\* no white space at either end.
C25_NameFromChainTrimmed ==
    Decoded("Info") =>
        /\ probe.out.exc = "ok"
        /\ probe.out.v.name = Str(ChainName(probe.res))
        /\ probe.out.v.name.v # <<>>
        /\ Strip(probe.out.v.name.v) = probe.out.v.name.v

\* the app payload of an Application payload: the nested `app` if there is
\* one, else the payload itself; a bare string as the mapping of its text
AppPayload(data) ==
    LET app == IF HasKey(data, "app") THEN data.v["app"] ELSE data
    IN  IF app.ty = "str" THEN Dict("#text" :> app) ELSE app

\* C26: Application.from_dict returns an Application for an apps-list entry,
\* for a mapping with a nested `app` mapping and for one whose nested `app`
\* is a bare string; id, name and version are the `@id`, `#text` and
\* `@version` of the app payload, absent where it has none (a bare string
\* gives the name only); screensaver is true iff the outer payload has a
\* `screensaver` key that is not None, whatever the app payload holds.
C26_ApplicationShapes ==
    (Decoded("Application") /\ IsDict(AppPayload(probe.res))) =>
        /\ probe.out.exc = "ok"
        /\ probe.out.v.app_id = Get(AppPayload(probe.res), "@id", None)
        /\ probe.out.v.name = Get(AppPayload(probe.res), "#text", None)
        /\ probe.out.v.version = Get(AppPayload(probe.res), "@version", None)
        /\ probe.out.v.screensaver =
              (HasKey(probe.res, "screensaver") /\ probe.res.v["screensaver"] # None)
        /\ (HasKey(probe.res, "app") /\ probe.res.v["app"].ty = "str") =>
              /\ probe.out.v.name = probe.res.v["app"]
              /\ probe.out.v.app_id = None /\ probe.out.v.version = None

\* a nested app that is a bare string, under a screensaver: the name alone
\* is set, and the flag is
C26_Witness ==
    /\ Decoded("Application")
    /\ probe.out.exc = "ok"
    /\ HasKey(probe.res, "app") /\ probe.res.v["app"] = Str(S_Roku)
    /\ HasKey(probe.res, "screensaver") /\ probe.res.v["screensaver"] = Saver
    /\ probe.out.v.name = Str(S_Roku) /\ probe.out.v.app_id = None
    /\ probe.out.v.screensaver

-----------------------------------------------------------------------------
(* Roku._request: the hostname cache, the outcomes, the session *)

\* the host that is an IP literal
IpLiteral == Str(<<"1", "0", ".", "0", ".", "0", ".", "7">>)

\* the hosts the resolver gave in the call
Given == IF http.answer.exc = "ok" THEN http.answer.v.v ELSE <<>>

\* the resolver was asked in the call and gave no usable answer: an error, or
\* a host that is no IP address
ResolutionFailed ==
    /\ http.answer # Raise("none")
    /\ \/ http.answer.exc # "ok"
       \/ \E i \in 1..Len(Given) : Given[i] \notin {IpLiteral, Str(<<"1", "0", ".", "0", ".", "0", ".", "8">>),
                                                    Str(<<"1", "0", ".", "0", ".", "0", ".", "9">>)}

\* C27: a request on a client whose host is no IP literal asks the resolver
\* iff the client had no address cached when the request began or the
\* request began 2 hours or more after the last resolution; a request that
\* does not ask it goes out with the cached address untouched. After a
\* resolution the DNS state holds the first address the resolver gave and
\* the time at which it gave it. On a client whose host is an IP literal the
\* resolver is never asked and the DNS state stays {enabled: false,
\* hostname: None, ip_address: None, resolved_at: None}.
C27_ResolveWhenStale ==
    /\ (http.pc # "idle" /\ roku.host # IpLiteral) =>
          /\ http.resolver <=>
                \/ http.before.dns_ip_address = None
                \/ http.started >= http.before.dns_resolved_at.v + 2
          /\ ~http.resolver =>
                /\ http.sent
                /\ roku.dns_ip_address = http.before.dns_ip_address
                /\ roku.dns_resolved_at = http.before.dns_resolved_at
          /\ (http.resolver /\ http.sent) =>
                GetDnsState(roku) =
                    [enabled |-> TRUE, hostname |-> roku.host,
                     ip_address |-> Given[1], resolved_at |-> PyInt(http.answered_at)]
    /\ roku.host = IpLiteral =>
          /\ ~http.resolver
          /\ GetDnsState(roku) =
                [enabled |-> FALSE, hostname |-> None, ip_address |-> None,
                 resolved_at |-> None]

\* a request made 2 hours or more after the last resolution asked the
\* resolver again, which gave another address, some time after the request
\* began
C27_Witness ==
    /\ http.resolver /\ http.sent
    /\ http.before.dns_ip_address # None
    /\ roku.dns_ip_address # http.before.dns_ip_address
    /\ http.answered_at > http.started
    /\ roku.dns_resolved_at = PyInt(http.answered_at)

\* C28: when the resolution fails, by an error of the resolver or by a
\* result that is no IP address, the request raises RokuConnectionError, no
\* HTTP request is sent and no session is created, and the cached address
\* and the time of its resolution are as they were before the call.
C28_FailedResolutionKeepsCache ==
    ResolutionFailed =>
        /\ http.pc = "done"
        /\ http.out.exc = "RokuConnectionError"
        /\ ~http.sent
        /\ roku.session = http.before.session
        /\ roku.dns_ip_address = http.before.dns_ip_address
        /\ roku.dns_resolved_at = http.before.dns_resolved_at

\* the refresh of a cached address failed, the resolver having given a host
\* name back
C28_Witness ==
    /\ ResolutionFailed
    /\ http.answer.exc = "ok"
    /\ http.before.dns_ip_address # None
    /\ roku.dns_ip_address = http.before.dns_ip_address

\* the response has an XML content type
XmlResponse ==
    http.response.content_type \in
        {<<"a", "p", "p", "l", "i", "c", "a", "t", "i", "o", "n", "/", "x", "m", "l">>,
         <<"t", "e", "x", "t", "/", "x", "m", "l", ";", " ", "c", "h", "a", "r", "s", "e", "t", "=", "u", "t", "f", "-", "8">>}

C30_SessionLifecycle ==
    /\ [](/\ roku.close_session <=> (roku.session = ClientSession("client"))
          /\ http.sent => roku.session # None
          /\ (http.pc = "idle" /\ ~http.ended) => roku.session \in {None, ClientSession("caller")}
          /\ "caller" \notin http.closed
          /\ http.ended =>
                http.closed = (IF roku.session = ClientSession("client")
                               THEN {"client"} ELSE {}))
    /\ [][roku.session' # roku.session =>
             /\ roku.session = None
             /\ roku.session' = ClientSession("client")
             /\ ~http.sent /\ http'.sent]_vars

\* a client without a session resolved its host, made two requests and was
\* closed: the session it created was closed
C30_Witness ==
    /\ http.ended
    /\ http.closed = {"client"}
    /\ http.pc = "done" /\ http.out.exc = "ok"
    /\ http.before.session = ClientSession("client")
    /\ roku.dns_ip_address # None

-----------------------------------------------------------------------------
(* the commands: remote, literal, tune *)

S_Lit == <<"L", "i", "t", "_">>

\* the key names of the table, whatever the letter case they are given in
InTable(key) == \E k \in DOMAIN VALID_REMOTE_KEYS : Join(Lower(key)) = k

LiteralPosts(text) ==
    [i \in 1..Len(text) |->
        Post("keypress/Lit_" \o (CASE text[i] = " " -> "+"
                                   [] text[i] = "@" -> "%40"
                                   [] OTHER -> text[i]))]

\* C32: remote("Lit_<text>") is accepted as a literal keypress: it sends one
\* POST keypress/Lit_<char> for each character of <text>, in order, and
\* raises no error of its own.
C32_RemoteLiteral ==
    /\ control.op = "remote"
    /\ control.pc # "idle"
    /\ StartsWith(control.arg, S_Lit)
    => LET want == LiteralPosts(SubSeq(control.arg, 5, Len(control.arg)))
       IN  /\ control.posted = SubSeq(want, 1, Len(control.posted))
           /\ control.out.exc # "ok" => control.answered > 0
           /\ control.pc = "done" /\ control.out.exc = "ok" => control.posted = want

\* C33: literal(text) sends exactly one POST keypress/Lit_<url-encoded char>
\* per character of text, in text order, each only after the previous one
\* has completed; if one request fails the error propagates and no later
\* character is sent, so the device has received exactly a prefix of the text.
C33_LiteralInOrder ==
    /\ [](control.op = "literal" /\ control.pc # "idle" =>
            LET want == LiteralPosts(control.arg)
            IN  /\ Len(control.posted) <= Len(want)
                /\ control.posted = SubSeq(want, 1, Len(control.posted))
                /\ Len(control.posted) =
                       control.answered + (IF control.pc = "awaiting" THEN 1 ELSE 0)
                /\ control.out.exc # "ok" => control.pc = "done"
                /\ control.pc = "done" /\ control.out.exc = "ok" => control.posted = want)
    /\ [][control.op = "literal" /\ control.pc = "done" => control' = control]_vars

\* literal("t @") failed at its second character: two requests made, the
\* third character never sent
C33_Witness ==
    /\ control.op = "literal"
    /\ control.arg = <<"t", " ", "@">>
    /\ control.pc = "done"
    /\ control.out = Raise("RokuConnectionError")
    /\ control.posted = <<Post("keypress/Lit_t"), Post("keypress/Lit_+")>>

\* C34: tune(channel) issues exactly one POST to launch/tvinput.dtv whose
\* query string carries the three parameters ch, chan and lcn, each equal to
\* the given channel.
C34_TuneThreeParameters ==
    control.op = "tune" /\ control.pc # "idle" =>
        LET ch == Join(control.arg)
        IN  control.posted =
                <<Post("launch/tvinput.dtv?ch=" \o ch \o "&chan=" \o ch \o "&lcn=" \o ch)>>

\* C35: Device.as_dict() returns a mapping with the keys dns, info, state,
\* apps, channels, app, channel and media, where dns, info and state are
\* mappings, apps and channels are lists of the same length as the Device's,
\* and app, channel and media are None exactly when the corresponding Device
\* field is None.
C35_AsDictShape ==
    probe.task = "as_dict" /\ probe.done =>
        /\ probe.out.exc = "ok"
        /\ DOMAIN probe.out.v.v =
               {"dns", "info", "state", "apps", "channels", "app", "channel", "media"}
        /\ \A k \in {"dns", "info", "state"} : probe.out.v.v[k].ty = "dict"
        /\ \A k \in {"apps", "channels"} :
               /\ probe.out.v.v[k].ty = "list"
               /\ Len(probe.out.v.v[k].v) = Len(probe.res.v[k])
        /\ \A k \in {"app", "channel", "media"} :
               probe.out.v.v[k] = None <=> probe.res.v[k] = None

-----------------------------------------------------------------------------
(* Roku.update: the snapshot it leaves, what it lets escape, what it leaves running *)

\* the active channel and the media state agree with the active app
Coherent(dev) ==
    /\ dev.channel # None =>
           dev.app # None /\ dev.app.app_id = Str(S_tvinput_dtv)
    /\ dev.media # None =>
           /\ dev.app # None
           /\ dev.app.app_id.ty = "str"
           /\ dev.app.app_id.v # <<>>
           /\ ~StartsWith(dev.app.app_id.v, S_tvinput)
    /\ ~(dev.channel # None /\ dev.media # None)
    /\ dev.app = None => dev.channel = None /\ dev.media = None

\* C36: after any sequence of successful update() calls the snapshot has a
\* channel only if the active app's id is "tvinput.dtv" and a media state
\* only if the active app has an id that does not start with "tvinput"; so
\* never both, and neither while app is None.
C36_SnapshotCoherent ==
    \A c \in Serial : calls[c].pc = "returned" => Coherent(heap[device])

\* a second update() has returned with the tuner active and a channel, after
\* a first one that left a media state
C36_Witness ==
    \E c \in Serial :
        /\ calls[c].pc = "returned"
        /\ calls[c].before.media # None
        /\ heap[device].channel # None
        /\ heap[device].media = None

\* C37: whatever structured data the transport returns for each endpoint
\* (an empty device-info, active-app, apps or tv-channel element, an
\* active-app mapping without an app key), update() returns the Device or
\* raises RokuError or one of its subclasses; no KeyError, TypeError,
\* AttributeError or ValueError escapes.
C37_OnlyRokuErrorsEscape ==
    \A c \in Serial : calls[c].pc = "raised" => calls[c].exc \in RokuErrors

\* C38: every Device whose construction succeeds has info and state
\* populated: for every payload with the keys info, available and standby,
\* whatever the value of info (None and the empty mapping too), the
\* constructor raises or produces a Device whose info is a decoded Info.
C38_ConstructedHasInfo ==
    (merge.exc = "ok" /\ heap # <<>>) =>
        /\ heap[Len(heap)].state.ty = "State"
        /\ heap[Len(heap)].info.ty = "Info"

\* C39: update_from_dict is atomic with respect to decoding failures: when
\* the call raises while decoding a field of the payload (a playing media
\* payload whose duration is not numeric), no field of the Device, state and
\* info included, differs from its value before the call.
C39_MergeAtomic ==
    (Merged /\ merge.exc # "ok") => heap[device] = merge.before

\* C40: when update() returns or raises, none of the fetches it scheduled is
\* still in flight: when one of the gathered fetches fails and update()
\* raises, the other gathered fetches have completed or been cancelled, so no
\* request of a finished update() overlaps the requests of the next one.
C40_NothingLeftInFlight ==
    \A c \in Serial :
        /\ Over(calls[c]) => ~\E q \in wire : q.c = c
        /\ ~\E q \in wire : q.c = c /\ ~q.live

=============================================================================
